---- MODULE Spec2Model ----
(***************************************************************************)
(* fs-regex-mcp: the five regex tools (regexSearch, regexReplace,          *)
(* regexExtract, regexMatchLines, regexSplit), their helpers in utils and  *)
(* the deadline race of withTimeout, as one state machine.                 *)
(*                                                                         *)
(* A JavaScript string is a sequence of one-character strings; offsets,    *)
(* columns and lastIndex are 0-based as in the source, line numbers and    *)
(* segment numbers are 1-based as in the source.                           *)
(***************************************************************************)
EXTENDS Integers, Sequences, FiniteSets, TLC

\* ------------------------------------------------------------------------
\* Characters
\* ------------------------------------------------------------------------
NUL == "NUL"
LF == "\n"
CR == "\r"
BSL == "\\"
DigitChars == {"0", "1", "2", "3", "4", "5", "6", "7", "8", "9"}
LowerChars == {"a", "b", "c", "d", "e", "f", "g", "h", "i", "j", "k", "l", "m",
               "n", "o", "p", "q", "r", "s", "t", "u", "v", "w", "x", "y", "z"}
UpperChars == {"A", "B", "C", "D", "E", "F", "G", "H", "I", "J", "K", "L", "M",
               "N", "O", "P", "Q", "R", "S", "T", "U", "V", "W", "X", "Y", "Z"}
WordChars == DigitChars \cup LowerChars \cup UpperChars \cup {"_"}
QuantChars == {"*", "+", "?"}
\* the value of an array slot that holds undefined
UNDEF == <<"undefined">>

Min(a, b) == IF a <= b THEN a ELSE b
Max(a, b) == IF a >= b THEN a ELSE b

\* case folding used by the i flag (only the letters the inputs use)
Canon(c) == CASE c = "A" -> "a" [] c = "B" -> "b" [] OTHER -> c

\* ------------------------------------------------------------------------
\* String primitives of the language runtime
\* ------------------------------------------------------------------------
\* String.prototype.substring(start, end): arguments clamped and ordered
substring(s, start, end) ==
    LET a == Max(0, Min(start, Len(s)))
        b == Max(0, Min(end, Len(s)))
    IN  SubSeq(s, Min(a, b) + 1, Max(a, b))

\* String.prototype.split(sep) with a one-character separator
RECURSIVE splitChar(_, _)
splitChar(s, sep) ==
    LET hits == {i \in 1..Len(s) : s[i] = sep}
    IN  IF hits = {} THEN <<s>>
        ELSE LET i == CHOOSE j \in hits : \A k \in hits : j <= k
             IN  <<SubSeq(s, 1, i - 1)>> \o splitChar(SubSeq(s, i + 1, Len(s)), sep)

\* does s contain the string t at 0-based offset i
StartsAt(s, t, i) ==
    /\ i >= 0
    /\ i + Len(t) <= Len(s)
    /\ SubSeq(s, i + 1, i + Len(t)) = t

\* String.prototype.indexOf(t, from): -1 when there is no occurrence
indexOf(s, t, from) ==
    LET f == Max(0, Min(from, Len(s)))
        hits == {i \in f..Len(s) : StartsAt(s, t, i)}
    IN  IF hits = {} THEN 0 - 1
        ELSE CHOOSE i \in hits : \A k \in hits : i <= k

\* String.prototype.lastIndexOf(c)
lastIndexOf(s, t) ==
    LET hits == {i \in 0..Len(s) : StartsAt(s, t, i)}
    IN  IF hits = {} THEN 0 - 1
        ELSE CHOOSE i \in hits : \A k \in hits : i >= k

\* Array.prototype.slice(0, n) for n >= 0
sliceTo(arr, n) == SubSeq(arr, 1, Min(n, Len(arr)))

\* ------------------------------------------------------------------------
\* The regular-expression evaluator (the RegExp primitive of the runtime),
\* for the pattern syntax the inputs use: literal characters, escapes,
\* . ^ $, [set], \d \w, back references by number, capturing, named and
\* non-capturing groups, lookahead, and the quantifiers * + ? (greedy or
\* lazy).
\* ------------------------------------------------------------------------
ParseFail == [ok |-> FALSE, items |-> <<>>, pos |-> 0, names |-> <<>>]
ParseDone(i, names) == [ok |-> TRUE, items |-> <<>>, pos |-> i, names |-> names]
ParsedAtom(atom, pos, names) == [ok |-> TRUE, atom |-> atom, pos |-> pos, names |-> names]

\* the least element of a non-empty set of positions, 0 for the empty set
First(hits) == IF hits = {} THEN 0 ELSE CHOOSE x \in hits : \A y \in hits : x <= y

\* the character k places after position i, "" past the end
LookAhead(s, i, k) == IF i + k <= Len(s) THEN s[i + k] ELSE ""

\* the atom of an escape sequence \e
EscapeAtom(e) ==
    CASE e = "n" -> [t |-> "chr", c |-> LF]
      [] e = "r" -> [t |-> "chr", c |-> CR]
      [] e = "d" -> [t |-> "set", cs |-> DigitChars]
      [] e = "w" -> [t |-> "set", cs |-> WordChars]
      [] e \in DigitChars \ {"0"} ->
           [t |-> "bref", k |-> CHOOSE d \in 1..9 : ToString(d) = e]
      [] OTHER -> [t |-> "chr", c |-> e]

\* what opens at the "(" at position i: the kind of group, where its body
\* starts, its capture index (0 = none) and the group names so far
GroupOpen(kind, from, idx, neg, names) ==
    [ok |-> TRUE, kind |-> kind, from |-> from, idx |-> idx, neg |-> neg, names |-> names]
GroupOpenFail == [ok |-> FALSE, kind |-> "", from |-> 0, idx |-> 0, neg |-> FALSE, names |-> <<>>]
NamedGroupOpen(s, i, names, j) ==
    IF j = 0 \/ j = i + 3 \/ (\E x \in (i + 3)..(j - 1) : s[x] \notin WordChars)
    THEN GroupOpenFail
    ELSE GroupOpen("grp", j + 1, Len(names) + 1, FALSE, Append(names, SubSeq(s, i + 3, j - 1)))
GroupHead(s, i, names) ==
    IF LookAhead(s, i, 1) # "?"
    THEN GroupOpen("grp", i + 1, Len(names) + 1, FALSE, Append(names, <<>>))
    ELSE CASE LookAhead(s, i, 2) = ":" -> GroupOpen("grp", i + 3, 0, FALSE, names)
           [] LookAhead(s, i, 2) = "=" -> GroupOpen("look", i + 3, 0, FALSE, names)
           [] LookAhead(s, i, 2) = "!" -> GroupOpen("look", i + 3, 0, TRUE, names)
           [] LookAhead(s, i, 2) = "<" ->
                NamedGroupOpen(s, i, names, First({j \in (i + 3)..Len(s) : s[j] = ">"}))
           [] OTHER -> GroupOpenFail

\* the group atom, given how it opened and its parsed body; the body must
\* stop at a ")"
GroupAtom(s, open, body) ==
    IF ~body.ok \/ body.pos > Len(s) THEN ParseFail
    ELSE ParsedAtom(IF open.kind = "look"
                    THEN [t |-> "look", neg |-> open.neg, body |-> body.items]
                    ELSE [t |-> "grp", idx |-> open.idx, body |-> body.items],
                    body.pos + 1, body.names)

SetAtom(s, i, names, j) ==
    IF j = 0 THEN ParseFail
    ELSE ParsedAtom([t |-> "set", cs |-> {s[x] : x \in (i + 1)..(j - 1)}], j + 1, names)

RECURSIVE ParseSeq(_, _, _, _)

GroupFrom(s, open) ==
    IF ~open.ok THEN ParseFail
    ELSE GroupAtom(s, open, ParseSeq(s, open.from, open.names, FALSE))

\* the atom starting at 1-based position i of the pattern source s
ParseAtom(s, i, names) ==
    CASE s[i] = BSL ->
           IF i + 1 > Len(s) THEN ParseFail
           ELSE ParsedAtom(EscapeAtom(s[i + 1]), i + 2, names)
      [] s[i] = "(" -> GroupFrom(s, GroupHead(s, i, names))
      [] s[i] = "[" -> SetAtom(s, i, names, First({j \in (i + 1)..Len(s) : s[j] = "]"}))
      [] s[i] = ")" -> ParseFail
      [] s[i] \in QuantChars -> ParseFail
      [] s[i] = "." -> ParsedAtom([t |-> "any"], i + 1, names)
      [] s[i] = "^" -> ParsedAtom([t |-> "bol"], i + 1, names)
      [] s[i] = "$" -> ParsedAtom([t |-> "eol"], i + 1, names)
      [] OTHER -> ParsedAtom([t |-> "chr", c |-> s[i]], i + 1, names)

\* the quantifier that follows the atom a: its character ("1" for none),
\* whether it is lazy, and the position after it
QuantOf(s, a) ==
    IF a.pos <= Len(s) /\ s[a.pos] \in QuantChars
    THEN IF a.pos + 1 <= Len(s) /\ s[a.pos + 1] = "?"
         THEN [q |-> s[a.pos], lazy |-> TRUE, next |-> a.pos + 2]
         ELSE [q |-> s[a.pos], lazy |-> FALSE, next |-> a.pos + 1]
    ELSE [q |-> "1", lazy |-> FALSE, next |-> a.pos]

ItemThen(a, quant, rest) ==
    IF ~rest.ok \/ (quant.q # "1" /\ a.atom.t \in {"bol", "eol"}) THEN ParseFail
    ELSE [ok |-> TRUE,
          items |-> <<[atom |-> a.atom, q |-> quant.q, lazy |-> quant.lazy]>> \o rest.items,
          pos |-> rest.pos,
          names |-> rest.names]

AtomThen(s, top, a, quant) ==
    IF ~a.ok THEN ParseFail
    ELSE ItemThen(a, quant, ParseSeq(s, quant.next, a.names, top))

AtomParsed(s, top, a) ==
    AtomThen(s, top, a, IF a.ok THEN QuantOf(s, a) ELSE [q |-> "1", lazy |-> FALSE, next |-> 0])

\* the items from position i up to the end of the source (top) or up to the
\* ")" that closes the enclosing group
ParseSeq(s, i, names, top) ==
    IF i > Len(s)
    THEN (IF top THEN ParseDone(i, names) ELSE ParseFail)
    ELSE IF s[i] = ")"
    THEN (IF top THEN ParseFail ELSE ParseDone(i, names))
    ELSE AtomParsed(s, top, ParseAtom(s, i, names))

\* the flag letters the RegExp constructor accepts, each at most once
SupportedFlags == {"d", "g", "i", "m", "s", "u", "v", "y"}
ValidFlags(flags) ==
    /\ \A i \in 1..Len(flags) : flags[i] \in SupportedFlags
    /\ \A i, j \in 1..Len(flags) : i # j => flags[i] # flags[j]
    /\ ~({"u", "v"} \subseteq {flags[i] : i \in 1..Len(flags)})
hasFlag(flags, f) == \E i \in 1..Len(flags) : flags[i] = f

\* RegExp.prototype.flags: the flags in canonical order
FlagOrder == <<"d", "g", "i", "m", "s", "u", "v", "y">>
CanonFlags(flags) ==
    SelectSeq(FlagOrder, LAMBDA f : \E i \in 1..Len(flags) : flags[i] = f)

\* RegExp.prototype.source: the empty pattern reads (?:), a line break reads
\* as its escape, an unescaped / is escaped
RECURSIVE EscapeSource(_, _)
EscapeSource(s, i) ==
    IF i > Len(s) THEN <<>>
    ELSE CASE s[i] = BSL /\ i + 1 <= Len(s) -> <<s[i], s[i + 1]>> \o EscapeSource(s, i + 2)
           [] s[i] = LF -> <<BSL, "n">> \o EscapeSource(s, i + 1)
           [] s[i] = CR -> <<BSL, "r">> \o EscapeSource(s, i + 1)
           [] s[i] = "/" -> <<BSL, "/">> \o EscapeSource(s, i + 1)
           [] OTHER -> <<s[i]>> \o EscapeSource(s, i + 1)
RegExpSource(s) == IF s = <<>> THEN <<"(", "?", ":", ")">> ELSE EscapeSource(s, 1)

\* new RegExp(source, flags): ok = FALSE stands for the SyntaxError
RegExpOf(source, flags, p) ==
    IF p.ok /\ ValidFlags(flags)
    THEN [ok |-> TRUE, source |-> RegExpSource(source), flags |-> CanonFlags(flags),
          items |-> p.items, names |-> p.names]
    ELSE [ok |-> FALSE, source |-> source, flags |-> flags,
          items |-> <<>>, names |-> <<>>]
NewRegExp(source, flags) == RegExpOf(source, flags, ParseSeq(source, 1, <<>>, TRUE))

\* ---- matching ----------------------------------------------------------
\* A partial match is the position reached (0-based offset of the next
\* character) and the text captured by each group so far.  The operators
\* below list every way to match, in the evaluator's priority order.
Step(pos, caps) == [end |-> pos, caps |-> caps]

RECURSIVE MSeq(_, _, _, _, _, _)
RECURSIVE MStar(_, _, _, _, _, _)

\* the character at offset pos, "" at the end of the text
CharAt(text, pos) == IF pos < Len(text) THEN text[pos + 1] ELSE ""

SameChar(flags, x, y) == x = y \/ (hasFlag(flags, "i") /\ Canon(x) = Canon(y))

\* the captures with group idx set to value
SetCapture(caps, idx, value) ==
    SubSeq(caps, 1, idx - 1) \o <<value>> \o SubSeq(caps, idx + 1, Len(caps))

\* the ways an atom matches at pos; inner lists the ways the body of a
\* group or lookahead matches there
AtomWays(flags, atom, text, pos, caps, inner) ==
    CASE atom.t = "chr" ->
           IF pos < Len(text) /\ SameChar(flags, CharAt(text, pos), atom.c)
           THEN <<Step(pos + 1, caps)>> ELSE <<>>
      [] atom.t = "any" ->
           IF pos < Len(text) /\ (hasFlag(flags, "s") \/ CharAt(text, pos) \notin {LF, CR})
           THEN <<Step(pos + 1, caps)>> ELSE <<>>
      [] atom.t = "set" ->
           IF pos < Len(text) /\ \E x \in atom.cs : SameChar(flags, CharAt(text, pos), x)
           THEN <<Step(pos + 1, caps)>> ELSE <<>>
      [] atom.t = "bol" ->
           IF pos = 0 \/ (hasFlag(flags, "m") /\ text[pos] \in {LF, CR})
           THEN <<Step(pos, caps)>> ELSE <<>>
      [] atom.t = "eol" ->
           IF pos = Len(text) \/ (hasFlag(flags, "m") /\ CharAt(text, pos) \in {LF, CR})
           THEN <<Step(pos, caps)>> ELSE <<>>
      [] atom.t = "bref" ->
           IF atom.k > Len(caps) \/ caps[atom.k] = UNDEF THEN <<Step(pos, caps)>>
           ELSE IF StartsAt(text, caps[atom.k], pos)
           THEN <<Step(pos + Len(caps[atom.k]), caps)>> ELSE <<>>
      [] atom.t = "look" ->
           IF atom.neg
           THEN (IF inner = <<>> THEN <<Step(pos, caps)>> ELSE <<>>)
           ELSE (IF inner = <<>> THEN <<>> ELSE <<Step(pos, inner[1].caps)>>)
      [] atom.t = "grp" ->
           IF atom.idx = 0 THEN inner
           ELSE [k \in 1..Len(inner) |->
                   Step(inner[k].end,
                        SetCapture(inner[k].caps, atom.idx,
                                   substring(text, pos, inner[k].end)))]

MAtom(flags, atom, text, pos, caps) ==
    AtomWays(flags, atom, text, pos, caps,
             IF atom.t \in {"look", "grp"} THEN MSeq(flags, atom.body, 1, text, pos, caps)
             ELSE <<>>)

\* the ways to go on repeating the atom after each of the matches in ways;
\* from > 0 keeps only the matches that moved past offset from - 1
RECURSIVE Repeat(_, _, _, _, _, _, _)
Repeat(flags, atom, text, lazy, ways, k, from) ==
    IF k > Len(ways) THEN <<>>
    ELSE (IF ways[k].end >= from
          THEN MStar(flags, atom, text, ways[k].end, ways[k].caps, lazy)
          ELSE <<>>)
         \o Repeat(flags, atom, text, lazy, ways, k + 1, from)

\* zero or more repetitions, given the ways of a first repetition at pos; a
\* repetition that consumes nothing is not repeated
StarWays(flags, atom, text, pos, caps, lazy, more) ==
    IF lazy THEN <<Step(pos, caps)>> \o more ELSE more \o <<Step(pos, caps)>>

MStar(flags, atom, text, pos, caps, lazy) ==
    StarWays(flags, atom, text, pos, caps, lazy,
             Repeat(flags, atom, text, lazy, MAtom(flags, atom, text, pos, caps), 1, pos + 1))

\* the ways the quantified item matches at pos, given the ways its atom
\* matches once there
ItemWays(flags, it, text, pos, caps, once) ==
    CASE it.q = "1" -> once
      [] it.q = "?" -> IF it.lazy THEN <<Step(pos, caps)>> \o once
                       ELSE once \o <<Step(pos, caps)>>
      [] it.q = "*" -> StarWays(flags, it.atom, text, pos, caps, it.lazy,
                                Repeat(flags, it.atom, text, it.lazy, once, 1, pos + 1))
      [] it.q = "+" -> Repeat(flags, it.atom, text, it.lazy, once, 1, 0)

\* the ways items[k + 1..] match after each of the matches in heads
RECURSIVE Continue(_, _, _, _, _, _)
Continue(flags, items, k, text, heads, h) ==
    IF h > Len(heads) THEN <<>>
    ELSE MSeq(flags, items, k + 1, text, heads[h].end, heads[h].caps)
         \o Continue(flags, items, k, text, heads, h + 1)

\* every way items[k..] can match from pos, in priority order
MSeq(flags, items, k, text, pos, caps) ==
    IF k > Len(items) THEN <<Step(pos, caps)>>
    ELSE Continue(flags, items, k, text,
                  ItemWays(flags, items[k], text, pos, caps,
                           MAtom(flags, items[k].atom, text, pos, caps)),
                  1)

NoMatch == [found |-> FALSE, index |-> 0, end |-> 0, groups |-> <<>>, named |-> <<>>]

\* the names and texts of the named groups: <<name, text>> per named group
RECURSIVE NamedCaptures(_, _, _)
NamedCaptures(names, caps, k) ==
    IF k > Len(names) THEN <<>>
    ELSE (IF names[k] = <<>> THEN <<>> ELSE << <<names[k], caps[k]>> >>)
         \o NamedCaptures(names, caps, k + 1)

\* groups[1] is the matched text (match[0] in the source), groups[k + 1] is
\* capture group k
MatchOf(regex, text, pos, ways) ==
    IF ways = <<>> THEN NoMatch
    ELSE [found |-> TRUE, index |-> pos, end |-> ways[1].end,
          groups |-> <<substring(text, pos, ways[1].end)>> \o ways[1].caps,
          named |-> NamedCaptures(regex.names, ways[1].caps, 1)]

\* the match that starts exactly at offset pos, if any
MatchAt(regex, text, pos) ==
    MatchOf(regex, text, pos,
            MSeq(regex.flags, regex.items, 1, text, pos,
                 [k \in 1..Len(regex.names) |-> UNDEF]))

\* RegExp.prototype.exec for a global or sticky regex: the leftmost match
\* at or after lastIndex (exactly at lastIndex when sticky)
RECURSIVE ExecFrom(_, _, _, _)
ExecStep(regex, text, pos, last, m) ==
    IF m.found THEN m ELSE ExecFrom(regex, text, pos + 1, last)
ExecFrom(regex, text, pos, last) ==
    IF pos > last THEN NoMatch
    ELSE ExecStep(regex, text, pos, last, MatchAt(regex, text, pos))
RegExpExec(regex, text, lastIndex) ==
    ExecFrom(regex, text, lastIndex,
             IF hasFlag(regex.flags, "y") THEN lastIndex ELSE Len(text))

\* RegExp.prototype.test: a global or sticky regex starts at lastIndex and
\* leaves lastIndex at the end of the match (0 after a failure); any other
\* regex starts at 0 and leaves lastIndex alone
UsesLastIndex(regex) == hasFlag(regex.flags, "g") \/ hasFlag(regex.flags, "y")
TestResult(regex, lastIndex, m) ==
    [found |-> m.found,
     lastIndex |-> IF UsesLastIndex(regex) THEN (IF m.found THEN m.end ELSE 0)
                   ELSE lastIndex]
RegExpTest(regex, text, lastIndex) ==
    TestResult(regex, lastIndex,
               RegExpExec(regex, text, IF UsesLastIndex(regex) THEN lastIndex ELSE 0))

\* the successive matches of a global regex from lastIndex on; after an
\* empty match the search moves one character on
RECURSIVE GlobalMatches(_, _, _)
MatchesAfter(regex, text, m) ==
    IF ~m.found THEN <<>>
    ELSE <<m>> \o GlobalMatches(regex, text, IF m.end = m.index THEN m.end + 1 ELSE m.end)
GlobalMatches(regex, text, lastIndex) ==
    MatchesAfter(regex, text, RegExpExec(regex, text, lastIndex))

\* String.prototype.replace(regex, fn) for a global regex: the text between
\* the matches ms, each match replaced by F(match)
RECURSIVE Flatten(_)
Flatten(ss) == IF ss = <<>> THEN <<>> ELSE Head(ss) \o Flatten(Tail(ss))
Spliced(str, ms, F(_)) ==
    Flatten([k \in 1..Len(ms) |->
                substring(str, IF k = 1 THEN 0 ELSE ms[k - 1].end, ms[k].index)
                \o F(ms[k])])
    \o substring(str, IF ms = <<>> THEN 0 ELSE ms[Len(ms)].end, Len(str))
StringReplace(str, regex, F(_)) == Spliced(str, GlobalMatches(regex, str, 0), F)

\* String.prototype.split(regex): the pieces between the separator matches,
\* each followed by the separator's capture groups (UNDEF for a group that
\* did not take part)
RECURSIVE SplitLoop(_, _, _, _)
SplitStep(str, regex, p, q, m) ==
    IF ~m.found \/ Min(m.end, Len(str)) = p THEN SplitLoop(str, regex, p, q + 1)
    ELSE <<substring(str, p, q)>> \o Tail(m.groups)
         \o SplitLoop(str, regex, Min(m.end, Len(str)), Min(m.end, Len(str)))
SplitLoop(str, regex, p, q) ==
    IF q >= Len(str) THEN <<substring(str, p, Len(str))>>
    ELSE SplitStep(str, regex, p, q, MatchAt(regex, str, q))
StringSplit(str, regex) ==
    IF Len(str) = 0
    THEN (IF MatchAt(regex, str, 0).found THEN <<>> ELSE <<str>>)
    ELSE SplitLoop(str, regex, 0, 0)

\* Array.prototype.join
RECURSIVE join(_, _)
join(parts, sep) ==
    IF parts = <<>> THEN <<>>
    ELSE IF Len(parts) = 1 THEN parts[1]
    ELSE parts[1] \o sep \o join(Tail(parts), sep)

\* Buffer.prototype.toString('utf-8'): a byte that is not valid UTF-8
\* decodes to the replacement character
toStringUtf8(buffer) ==
    [i \in 1..Len(buffer) |-> IF buffer[i] = "xFF" THEN "uFFFD" ELSE buffer[i]]

\* ------------------------------------------------------------------------
\* utils
\* ------------------------------------------------------------------------
DEFAULT_BINARY_CHECK_SIZE == 8192
DEFAULT_TIMEOUT_SECONDS == 30
DEFAULT_MAX_RESULTS == 100

\* a parameter of the params object, or its destructuring default
Param(params, key, default) ==
    IF key \in DOMAIN params THEN params[key] ELSE default
\* a numeric parameter that is given and not 0
Truthy(params, key) == key \in DOMAIN params /\ params[key] # 0

RegexMetaChars == {".", "*", "+", "?", "^", "$", "{", "}", "(", ")", "|", "[", "]", BSL}
escapeRegex(str) ==
    Flatten([i \in 1..Len(str) |->
                IF str[i] \in RegexMetaChars THEN <<BSL, str[i]>> ELSE <<str[i]>>])

\* pattern.split(/\r?\n/)
RECURSIVE splitLines(_)
SplitLineAt(s, i) ==
    IF i = 0 THEN <<s>>
    ELSE <<SubSeq(s, 1, IF i > 1 /\ s[i - 1] = CR THEN i - 2 ELSE i - 1)>>
         \o splitLines(SubSeq(s, i + 1, Len(s)))
splitLines(s) == SplitLineAt(s, First({i \in 1..Len(s) : s[i] = LF}))

EscapedLines(lines) == [i \in 1..Len(lines) |-> escapeRegex(lines[i])]
escapeLiteralPatternLFOnly(pattern) ==
    join(EscapedLines(splitLines(pattern)), <<BSL, "n">>)
escapeLiteralPattern(pattern) ==
    join(EscapedLines(splitLines(pattern)), <<BSL, "r", "?", BSL, "n">>)

\* flagsParam is <<>> when the flags argument is absent or empty
ParsedAt(pattern, flagsParam, literal, lastSlash) ==
    IF StartsAt(pattern, <<"/">>, 0) /\ lastSlash > 0
    THEN [pattern |-> IF literal
                      THEN escapeLiteralPattern(substring(pattern, 1, lastSlash))
                      ELSE substring(pattern, 1, lastSlash),
          flags |-> IF flagsParam # <<>> THEN flagsParam
                    ELSE substring(pattern, lastSlash + 1, Len(pattern))]
    ELSE [pattern |-> IF literal THEN escapeLiteralPattern(pattern) ELSE pattern,
          flags |-> flagsParam]
parsePattern(pattern, flagsParam, literal) ==
    ParsedAt(pattern, flagsParam, literal, lastIndexOf(pattern, <<"/">>))

isBinaryWholeBuffer(buffer, checkSize) ==
    IF checkSize <= 0 THEN FALSE
    ELSE \E i \in 1..Len(buffer) : buffer[i] = NUL
isBinary(buffer, checkSize) ==
    IF checkSize <= 0 THEN FALSE
    ELSE \E i \in 1..Min(Len(buffer), checkSize) : buffer[i] = NUL

\* the result of reading a file: text, the binary verdict (null in the
\* source) or the error thrown
readFileWithBinaryCheck(disk, filePath, binaryCheckSize) ==
    CASE disk[filePath].mode = "gone" ->
           [status |-> "error", content |-> <<>>,
            error |-> <<"File not found: ", filePath>>]
      [] disk[filePath].mode = "--" ->
           [status |-> "error", content |-> <<>>,
            error |-> <<"Permission denied: ", filePath>>]
      [] disk[filePath].mode = "eio" ->
           [status |-> "error", content |-> <<>>, error |-> <<"EIO">>]
      [] isBinary(disk[filePath].bytes, binaryCheckSize) ->
           [status |-> "binary", content |-> <<>>, error |-> <<>>]
      [] OTHER ->
           [status |-> "text", content |-> toStringUtf8(disk[filePath].bytes),
            error |-> <<>>]

getContextFromTarget(lines, lineIndex, contextBefore, contextAfter) ==
    [before |-> [k \in 1..(lineIndex + 1 - Max(0, lineIndex - contextBefore)) |->
                    lines[Max(0, lineIndex - contextBefore) + k]],
     after |-> [k \in 1..(Min(Len(lines) - 1, lineIndex + contextAfter) - lineIndex) |->
                    lines[lineIndex + 1 + k]]]
getContext(lines, lineIndex, contextBefore, contextAfter) ==
    [before |-> [k \in 1..(lineIndex - Max(0, lineIndex - contextBefore)) |->
                    lines[Max(0, lineIndex - contextBefore) + k]],
     after |-> [k \in 1..(Min(Len(lines) - 1, lineIndex + contextAfter) - lineIndex) |->
                    lines[lineIndex + 1 + k]]]

\* ok = FALSE stands for the thrown Error('Invalid regex: ' + error.message),
\* whose message is in error; the SyntaxError's own message stands as a
\* record of what failed to compile
CreatedRegex(parsedPattern, r) ==
    [ok |-> r.ok, regex |-> r,
     error |-> IF r.ok THEN <<>>
               ELSE <<"Invalid regex: ", [SyntaxError |-> parsedPattern]>>]
createRegex(parsedPattern) ==
    CreatedRegex(parsedPattern, NewRegExp(parsedPattern.pattern, parsedPattern.flags))

\* the while loop of findAllMatches; maxMatches = 0 stands for an absent or
\* zero limit
RECURSIVE FindLoop(_, _, _, _, _)
FindStepSkipsTwo(text, globalRegex, maxMatches, results, match) ==
    IF ~match.found THEN results
    ELSE IF maxMatches # 0 /\ Len(results) + 1 >= maxMatches THEN Append(results, match)
    ELSE FindLoop(text, globalRegex, maxMatches,
                  IF match.index = match.end THEN match.end + 2 ELSE match.end,
                  Append(results, match))
FindStep(text, globalRegex, maxMatches, results, match) ==
    IF ~match.found THEN results
    ELSE IF maxMatches # 0 /\ Len(results) + 1 >= maxMatches THEN Append(results, match)
    ELSE FindLoop(text, globalRegex, maxMatches,
                  IF match.index = match.end THEN match.end + 1 ELSE match.end,
                  Append(results, match))
FindLoop(text, globalRegex, maxMatches, lastIndex, results) ==
    FindStep(text, globalRegex, maxMatches, results,
             RegExpExec(globalRegex, text, lastIndex))
findAllMatchesDropsFlags(text, regex, maxMatches) ==
    FindLoop(text, NewRegExp(regex.source, <<"g">>), maxMatches, 0, <<>>)
findAllMatches(text, regex, maxMatches) ==
    FindLoop(text,
             NewRegExp(regex.source,
                       IF hasFlag(regex.flags, "g") THEN regex.flags
                       ELSE regex.flags \o <<"g">>),
             maxMatches, 0, <<>>)

LineColumnOf(lines) == [line |-> Len(lines), column |-> Len(lines[Len(lines)])]
getLineAndColumn(text, charIndex) ==
    LineColumnOf(splitChar(substring(text, 0, charIndex), LF))

\* TRUE when the pattern passes, FALSE stands for the thrown
\* Error('Pattern has no capture groups: ...')
validateCaptureGroups(pattern) ==
    \/ \E i \in 1..(Len(pattern) - 1) : pattern[i] = "(" /\ pattern[i + 1] # "?"
    \/ \E i \in 1..Len(pattern) : \E j \in (i + 4)..Len(pattern) :
          /\ SubSeq(pattern, i, i + 2) = <<"(", "?", "<">>
          /\ pattern[j] = ">"
          /\ \A k \in (i + 3)..(j - 1) : pattern[k] \in WordChars

\* the regular expressions of processReplacement
DOLLAR_SENTINEL == <<NUL, "D", "O", "L", "L", "A", "R", NUL>>
ReDollarDollar == NewRegExp(<<BSL, "$", BSL, "$">>, <<"g">>)
ReDollarNum == NewRegExp(<<BSL, "$", "(", BSL, "d", "+", ")">>, <<"g">>)
ReBackslashNum == NewRegExp(<<BSL, BSL, "(", BSL, "d", "+", ")">>, <<"g">>)
ReDollarName == NewRegExp(<<BSL, "$", BSL, "{", "(", BSL, "w", "+", ")", BSL, "}">>, <<"g">>)
ReBackslashGName == NewRegExp(<<BSL, BSL, "g", "<", "(", BSL, "w", "+", ")", ">">>, <<"g">>)
ReSentinel == NewRegExp(DOLLAR_SENTINEL, <<"g">>)

\* parseInt of a non-empty digit string
RECURSIVE parseInt(_)
parseInt(ds) ==
    IF ds = <<>> THEN 0
    ELSE 10 * parseInt(SubSeq(ds, 1, Len(ds) - 1))
         + (CHOOSE d \in 0..9 : ToString(d) = ds[Len(ds)])

\* groups[k] || '' with k 0-based
GroupOrUndefinedText(match, k) ==
    IF k + 1 <= Len(match.groups) /\ match.groups[k + 1] # UNDEF
    THEN match.groups[k + 1] ELSE <<"u", "n", "d", "e", "f", "i", "n", "e", "d">>
GroupOrEmpty(match, k) ==
    IF k + 1 <= Len(match.groups) /\ match.groups[k + 1] # UNDEF
    THEN match.groups[k + 1] ELSE <<>>
NumberedGroup(match, num) == GroupOrEmpty(match, parseInt(num))
\* groups.groups?.[name] || ''
NamedAt(match, k) ==
    IF k = 0 \/ match.named[k][2] = UNDEF THEN <<>> ELSE match.named[k][2]
NamedGroup(match, name) ==
    NamedAt(match, First({k \in 1..Len(match.named) : match.named[k][1] = name}))

processReplacement(replacement, match) ==
    StringReplace(
      StringReplace(
        StringReplace(
          StringReplace(
            StringReplace(
              StringReplace(replacement, ReDollarDollar, LAMBDA m : DOLLAR_SENTINEL),
              ReDollarNum, LAMBDA m : NumberedGroup(match, m.groups[2])),
            ReBackslashNum, LAMBDA m : NumberedGroup(match, m.groups[2])),
          ReDollarName, LAMBDA m : NamedGroup(match, m.groups[2])),
        ReBackslashGName, LAMBDA m : NamedGroup(match, m.groups[2])),
      ReSentinel, LAMBDA m : <<"$">>)

\* ------------------------------------------------------------------------
\* The per-file bodies of the five tools: the part of the file loop between
\* the read of the file and the end of the try block.  Each takes the text
\* read and the list accumulated so far and yields the new list.
\* ------------------------------------------------------------------------
MaxResultsOf(params) == Param(params, "max_results", DEFAULT_MAX_RESULTS)

\* remaining = max_results - allResults.length;
\* fileLimit = cap ? Math.min(cap, remaining) : remaining
FileLimitOffByOne(params, capKey, allResults) ==
    IF Truthy(params, capKey)
    THEN Min(params[capKey], MaxResultsOf(params) - Len(allResults))
    ELSE Max(1, MaxResultsOf(params) - Len(allResults) - 1)
FileLimit(params, capKey, allResults) ==
    IF Truthy(params, capKey)
    THEN Min(params[capKey], MaxResultsOf(params) - Len(allResults))
    ELSE MaxResultsOf(params) - Len(allResults)

ContextOf(params, content, lc) ==
    getContext(splitChar(content, LF), lc.line - 1,
               Param(params, "context_before", 0), Param(params, "context_after", 0))

\* ---- regexSearch
SearchFileLimit(params, allResults) == FileLimit(params, "max_matches", allResults)

SearchRecordOf(file, m, lc, context) ==
    [file |-> file, line |-> lc.line, column |-> lc.column,
     match |-> m.groups[1], groups |-> m.groups,
     context_before |-> context.before, context_after |-> context.after]
SearchRecordAt(params, file, content, m, lc) ==
    SearchRecordOf(file, m, lc, ContextOf(params, content, lc))
SearchRecord(params, file, content, m) ==
    SearchRecordAt(params, file, content, m, getLineAndColumn(content, m.index))

RECURSIVE SearchPush(_, _, _, _, _, _)
SearchPush(params, file, content, matches, i, acc) ==
    IF i > Len(matches) \/ Len(acc) >= MaxResultsOf(params) THEN acc
    ELSE SearchPush(params, file, content, matches, i + 1,
                    Append(acc, SearchRecord(params, file, content, matches[i])))

SearchFile(params, regex, file, content, allResults) ==
    SearchPush(params, file, content,
               findAllMatches(content, NewRegExp(regex.source, regex.flags),
                              SearchFileLimit(params, allResults)),
               1, allResults)

\* ---- regexExtract
ExtractFileLimit(params, allResults) == FileLimit(params, "max_matches", allResults)

ExtractRecordAt(file, m, lc) == [file |-> file, line |-> lc.line, groups |-> Tail(m.groups)]
ExtractRecord(file, content, m) ==
    ExtractRecordAt(file, m, getLineAndColumn(content, m.index))

RECURSIVE ExtractPush(_, _, _, _, _, _)
ExtractPush(params, file, content, matches, i, acc) ==
    IF i > Len(matches) \/ Len(acc) >= MaxResultsOf(params) THEN acc
    ELSE ExtractPush(params, file, content, matches, i + 1,
                     Append(acc, ExtractRecord(file, content, matches[i])))

ExtractFile(params, regex, file, content, allResults) ==
    ExtractPush(params, file, content,
                findAllMatches(content, NewRegExp(regex.source, regex.flags),
                               ExtractFileLimit(params, allResults)),
                1, allResults)

\* ---- regexReplace
ReplaceFileLimit(params, allResults) == FileLimit(params, "max_replacements", allResults)

ReplaceMatches(params, regex, content, allResults) ==
    findAllMatches(content, NewRegExp(regex.source, regex.flags),
                   ReplaceFileLimit(params, allResults))

ReplaceRecordOf(params, file, m, lc, context) ==
    [file |-> file, line |-> lc.line, column |-> lc.column,
     original |-> m.groups[1],
     replacement |-> IF Param(params, "literal", FALSE) THEN params.replacement
                     ELSE processReplacement(params.replacement, m),
     groups |-> m.groups,
     context_before |-> context.before, context_after |-> context.after]
ReplaceRecordAt(params, file, content, m, lc) ==
    ReplaceRecordOf(params, file, m, lc, ContextOf(params, content, lc))
ReplaceRecord(params, file, content, m) ==
    ReplaceRecordAt(params, file, content, m, getLineAndColumn(content, m.index))

\* the variables of the replacement loop before its first iteration
ReplaceStart(content, allResults) ==
    [allResults |-> allResults, results |-> <<>>, modifiedContent |-> content, offset |-> 0]

\* one iteration that does not break: record the result, splice the
\* replacement in at index + offset, adjust the offset
ReplaceApplyNoOffset(st, m, result) ==
    [allResults |-> Append(st.allResults, result),
     results |-> Append(st.results, result),
     modifiedContent |->
         substring(st.modifiedContent, 0, m.index + st.offset)
         \o result.replacement
         \o substring(st.modifiedContent, m.index + st.offset + Len(m.groups[1]),
                      Len(st.modifiedContent)),
     offset |-> st.offset]
ReplaceApply(st, m, result) ==
    [allResults |-> Append(st.allResults, result),
     results |-> Append(st.results, result),
     modifiedContent |->
         substring(st.modifiedContent, 0, m.index + st.offset)
         \o result.replacement
         \o substring(st.modifiedContent, m.index + st.offset + Len(m.groups[1]),
                      Len(st.modifiedContent)),
     offset |-> st.offset + Len(result.replacement) - Len(m.groups[1])]

\* the loop variables after iterations i..n, starting from st; once the
\* loop breaks on max_results the variables no longer change
RECURSIVE ReplaceLoop(_, _, _, _, _, _, _)
ReplaceLoopInBuffer(params, file, content, matches, i, n, st) ==
    IF i > n \/ Len(st.allResults) >= MaxResultsOf(params) THEN st
    ELSE ReplaceLoop(params, file, content, matches, i + 1, n,
                     ReplaceApply(st, matches[i],
                                  ReplaceRecord(params, file, st.modifiedContent,
                                                [matches[i] EXCEPT
                                                    !.index = @ + st.offset])))
ReplaceLoop(params, file, content, matches, i, n, st) ==
    IF i > n \/ Len(st.allResults) >= MaxResultsOf(params) THEN st
    ELSE ReplaceLoop(params, file, content, matches, i + 1, n,
                     ReplaceApply(st, matches[i],
                                  ReplaceRecord(params, file, content, matches[i])))

ReplaceAll(params, file, content, matches, allResults) ==
    ReplaceLoop(params, file, content, matches, 1, Len(matches),
                ReplaceStart(content, allResults))

ReplaceFile(params, regex, file, content, allResults) ==
    ReplaceAll(params, file, content,
               ReplaceMatches(params, regex, content, allResults), allResults)

\* ---- regexMatchLines
MatchLinesFileLimit(params, allResults) == FileLimit(params, "max_lines", allResults)

RECURSIVE MatchLinesLoop(_, _, _, _, _, _, _, _)
MatchLinesStepKeepsCursor(params, fileRegex, file, lines, fileLimit, i, acc, t) ==
    IF t.found # Param(params, "invert", FALSE)
    THEN MatchLinesLoop(params, fileRegex, file, lines, fileLimit, i + 1,
             Append(acc, [file |-> file, line |-> i, content |-> lines[i]]), t.lastIndex)
    ELSE MatchLinesLoop(params, fileRegex, file, lines, fileLimit, i + 1, acc, t.lastIndex)
MatchLinesStep(params, fileRegex, file, lines, fileLimit, i, acc, t) ==
    IF t.found # Param(params, "invert", FALSE)
    THEN (IF Truthy(params, "max_lines") /\ Len(acc) + 1 >= fileLimit
          THEN Append(acc, [file |-> file, line |-> i, content |-> lines[i]])
          ELSE MatchLinesLoop(params, fileRegex, file, lines, fileLimit, i + 1,
                   Append(acc, [file |-> file, line |-> i, content |-> lines[i]]), 0))
    ELSE MatchLinesLoop(params, fileRegex, file, lines, fileLimit, i + 1, acc, 0)
MatchLinesLoopNoGlobalCheck(params, fileRegex, file, lines, fileLimit, i, acc, lastIndex) ==
    IF i > Len(lines) THEN acc
    ELSE MatchLinesStep(params, fileRegex, file, lines, fileLimit, i, acc,
                        RegExpTest(fileRegex, lines[i], lastIndex))
MatchLinesLoop(params, fileRegex, file, lines, fileLimit, i, acc, lastIndex) ==
    IF i > Len(lines) \/ Len(acc) >= MaxResultsOf(params) THEN acc
    ELSE MatchLinesStep(params, fileRegex, file, lines, fileLimit, i, acc,
                        RegExpTest(fileRegex, lines[i], lastIndex))

MatchLinesFile(params, regex, file, content, allResults) ==
    MatchLinesLoop(params, NewRegExp(regex.source, regex.flags), file,
                   splitChar(content, LF),
                   MatchLinesFileLimit(params, allResults), 1, allResults, 0)

\* ---- regexSplit
SplitSegmentLimit(params, allResults) ==
    IF Truthy(params, "max_splits")
    THEN Min(params.max_splits + 1, MaxResultsOf(params) - Len(allResults))
    ELSE MaxResultsOf(params) - Len(allResults)

LineCountTo(content, pos) == Len(splitChar(substring(content, 0, pos), LF))

\* charPosition after segment i: past the segment, then on to where the next
\* segment is found in the content
SkipDelimiter(pos, delimiterEnd) == IF delimiterEnd > pos THEN delimiterEnd ELSE pos
NextCharPosition(content, limitedSegments, i, pos) ==
    IF i < Len(limitedSegments) /\ limitedSegments[i + 1] # UNDEF
    THEN SkipDelimiter(pos, indexOf(content, limitedSegments[i + 1], pos))
    ELSE pos

\* reading the length of a segment that is undefined throws, and the catch
\* of the file loop keeps what was pushed before
RECURSIVE SplitPush(_, _, _, _, _, _, _)
SplitPush(params, file, content, limitedSegments, i, acc, charPosition) ==
    IF i > Len(limitedSegments) \/ Len(acc) >= MaxResultsOf(params) THEN acc
    ELSE IF limitedSegments[i] = UNDEF THEN acc
    ELSE SplitPush(params, file, content, limitedSegments, i + 1,
                   Append(acc,
                     [file |-> file, segment |-> i, content |-> limitedSegments[i],
                      line_start |-> LineCountTo(content, charPosition),
                      line_end |-> LineCountTo(content,
                                               charPosition + Len(limitedSegments[i]))]),
                   NextCharPosition(content, limitedSegments, i,
                                    charPosition + Len(limitedSegments[i])))

SplitFile(params, regex, file, content, allResults) ==
    SplitPush(params, file, content,
              sliceTo(StringSplit(content, NewRegExp(regex.source, regex.flags)),
                      SplitSegmentLimit(params, allResults)),
              1, allResults, 0)

\* ------------------------------------------------------------------------
\* Inputs
\* ------------------------------------------------------------------------
MaxFiles == 2
MaxResults == 3
MaxCap == 2

Tools == {"regexSearch", "regexReplace", "regexExtract", "regexMatchLines", "regexSplit"}

\* the name of the per-operation cap of each tool
CapKey(t) ==
    CASE t = "regexSearch" -> "max_matches"
      [] t = "regexExtract" -> "max_matches"
      [] t = "regexReplace" -> "max_replacements"
      [] t = "regexMatchLines" -> "max_lines"
      [] t = "regexSplit" -> "max_splits"

\* an optional parameter: absent, or given with one of the values
Opt(key, values) == {<<>>} \cup {key :> v : v \in values}

ValidPatterns ==
    {[pattern |-> <<"(", "a", ")">>],
     [pattern |-> <<"a", "*">>]}
InvalidPatterns ==
    {[pattern |-> <<"(", "a">>],
     [pattern |-> <<"[">>],
     [pattern |-> <<"(", "a", ")">>, flags |-> <<"x">>]}

ToolParams(t) ==
    CASE t = "regexReplace" ->
           {[replacement |-> <<"$", "1", "x">>],
            [replacement |-> <<"$", "1", "x">>, dry_run |-> TRUE]}
      [] t = "regexMatchLines" -> Opt("invert", {TRUE})
      [] OTHER -> {<<>>}

Calls(t) ==
    {pat @@ tp @@ mr @@ cap :
        pat \in ValidPatterns, tp \in ToolParams(t),
        mr \in Opt("max_results", 0..MaxResults),
        cap \in Opt(CapKey(t), 1..MaxCap)}
    \cup
    {pat @@ tp @@ [timeout |-> 1] : pat \in InvalidPatterns, tp \in ToolParams(t)}

FileNames == <<"f1", "f2", "f3", "f4">>
Texts ==
    {<<"a", "b", LF, "a", "a">>,
     <<"b">>,
     <<"a", NUL, "a">>}

\* a file as the file system holds it; mode rw = readable and writable,
\* r- = read-only, -- = no access (EACCES), gone = removed after the glob
\* (ENOENT), eio = any other read error.  Only regexReplace writes, so only
\* it meets read-only files; the three read errors end in the same catch
\* of every tool, and regexSearch meets all three.
FileStates(t) ==
    {[mode |-> "rw", bytes |-> b] : b \in Texts}
    \cup {[mode |-> "--", bytes |-> <<>>]}
    \cup (IF t = "regexReplace"
          THEN {[mode |-> "r-", bytes |-> <<"a", "b", LF, "a", "a">>]}
          ELSE {})
    \cup (IF t = "regexSearch"
          THEN {[mode |-> "gone", bytes |-> <<>>], [mode |-> "eio", bytes |-> <<>>]}
          ELSE {})

\* ------------------------------------------------------------------------
\* State
\* ------------------------------------------------------------------------
VARIABLES
    tool,        \* the entry point called
    params,      \* its params object
    files,       \* what the glob yields, in discovery order
    disk,        \* the file system: file name -> [mode, bytes]
    pc,          \* where the operation is: start, glob, walk, returned, threw
    regex,       \* the regex compiled once before the walk
    fileIdx,     \* the position of the file loop in files (1-based)
    allResults,  \* the accumulated results
    opError,     \* the message of the error the operation threw
    timerFired,  \* the deadline timer of withTimeout has fired
    outcome,     \* what the caller got: [kind, value], kind pending at first
    ioLog        \* the file reads and writes performed, in order

vars == <<tool, params, files, disk, pc, regex, fileIdx, allResults, opError,
          timerFired, outcome, ioLog>>

NoRegex == [ok |-> FALSE, source |-> <<>>, flags |-> <<>>, items |-> <<>>, names |-> <<>>]
Pending == [kind |-> "pending", value |-> <<>>]

Init ==
    /\ tool \in Tools
    /\ params \in Calls(tool)
    /\ \E n \in 0..MaxFiles :
          /\ files = SubSeq(FileNames, 1, n)
          /\ disk \in [{FileNames[i] : i \in 1..n} -> FileStates(tool)]
    /\ pc = "start"
    /\ regex = NoRegex
    /\ fileIdx = 1
    /\ allResults = <<>>
    /\ opError = <<>>
    /\ timerFired = FALSE
    /\ outcome = Pending
    /\ ioLog = <<>>

\* ------------------------------------------------------------------------
\* withTimeout: Promise.race of the operation and the timer; the first of
\* the two to settle decides the outcome, the other is ignored
\* ------------------------------------------------------------------------
RaceLastWins(current, kind, value) == [kind |-> kind, value |-> value]
Race(current, kind, value) ==
    IF current.kind = "pending" THEN [kind |-> kind, value |-> value] ELSE current

TimeoutMessage(timeoutSeconds) ==
    <<"Operation timed out after ", timeoutSeconds, " seconds">>

\* the setTimeout callback of withTimeout
TimerFires ==
    /\ pc # "start"
    /\ ~timerFired
    /\ timerFired' = TRUE
    /\ outcome' = Race(outcome, "error",
                       TimeoutMessage(Param(params, "timeout", DEFAULT_TIMEOUT_SECONDS)))
    /\ UNCHANGED <<tool, params, files, disk, pc, regex, fileIdx, allResults,
                   opError, ioLog>>

\* ------------------------------------------------------------------------
\* The operation
\* ------------------------------------------------------------------------
ParsedPattern ==
    parsePattern(params.pattern, Param(params, "flags", <<>>),
                 IF tool = "regexExtract" THEN FALSE ELSE Param(params, "literal", FALSE))

Throw(message) ==
    /\ pc' = "threw"
    /\ opError' = message
    /\ outcome' = Race(outcome, "error", message)

\* the call: the operation runs up to its first await (the glob) and
\* withTimeout arms the timer.  regexExtract validates the capture groups
\* before the glob.
Begin ==
    /\ pc = "start"
    /\ IF tool = "regexExtract" /\ ~validateCaptureGroups(ParsedPattern.pattern)
       THEN Throw(<<"Pattern has no capture groups: ", ParsedPattern.pattern>>)
       ELSE /\ pc' = "glob"
            /\ UNCHANGED <<opError, outcome>>
    /\ UNCHANGED <<tool, params, files, disk, regex, fileIdx, allResults,
                   timerFired, ioLog>>

\* the glob resolves: an empty file list returns [] at once, otherwise the
\* pattern is compiled and the file loop starts
Compiled(r) ==
    IF r.ok
    THEN /\ pc' = "walk"
         /\ regex' = r.regex
         /\ UNCHANGED <<opError, outcome>>
    ELSE /\ Throw(r.error)
         /\ UNCHANGED regex
GlobDone ==
    /\ pc = "glob"
    /\ IF Len(files) = 0
       THEN /\ pc' = "returned"
            /\ outcome' = Race(outcome, "results", <<>>)
            /\ UNCHANGED <<regex, opError>>
       ELSE Compiled(createRegex(ParsedPattern))
    /\ UNCHANGED <<tool, params, files, disk, fileIdx, allResults, timerFired, ioLog>>

\* the list after the per-file body of the tool has run on content
SplitCap(p, key) ==
    IF Truthy(p, key)
    THEN [p EXCEPT ![key] = (p[key] + Len(files) - 1) \div Len(files)]
    ELSE p
FileBodyStaticSplit(t, p, rx, file, content, acc) ==
    CASE t = "regexSearch" -> SearchFile(SplitCap(p, "max_matches"), rx, file, content, acc)
      [] t = "regexExtract" -> ExtractFile(SplitCap(p, "max_matches"), rx, file, content, acc)
      [] t = "regexReplace" -> ReplaceFile(p, rx, file, content, acc).allResults
      [] t = "regexMatchLines" -> MatchLinesFile(p, rx, file, content, acc)
      [] t = "regexSplit" -> SplitFile(p, rx, file, content, acc)
FileBody(t, p, rx, file, content, acc) ==
    CASE t = "regexSearch" -> SearchFile(p, rx, file, content, acc)
      [] t = "regexExtract" -> ExtractFile(p, rx, file, content, acc)
      [] t = "regexReplace" -> ReplaceFile(p, rx, file, content, acc).allResults
      [] t = "regexMatchLines" -> MatchLinesFile(p, rx, file, content, acc)
      [] t = "regexSplit" -> SplitFile(p, rx, file, content, acc)

ReadEvent(file, rd) ==
    [kind |-> "read", file |-> file, ok |-> rd.status # "error",
     status |-> rd.status, content |-> rd.content]
WriteEvent(file, ok, content) ==
    [kind |-> "write", file |-> file, ok |-> ok, status |-> "text", content |-> content]

\* fs.writeFile fails on a file that is not writable and leaves it as it was
Writable(file) == disk[file].mode = "rw"

\* the end of the try block of regexReplace: the records are in allResults
\* already when the file is written; a failed write is caught like any
\* other error of the file
VisitReplaceAlwaysWrites(file, rd, st) ==
    /\ allResults' = st.allResults
    /\ IF ~Param(params, "dry_run", FALSE)
       THEN /\ ioLog' = ioLog \o <<ReadEvent(file, rd),
                                   WriteEvent(file, Writable(file), st.modifiedContent)>>
            /\ disk' = IF Writable(file)
                       THEN [disk EXCEPT ![file].bytes = st.modifiedContent]
                       ELSE disk
       ELSE /\ ioLog' = Append(ioLog, ReadEvent(file, rd))
            /\ UNCHANGED disk
    /\ UNCHANGED <<pc, opError, outcome>>
VisitReplace(file, rd, st) ==
    /\ allResults' = st.allResults
    /\ IF ~Param(params, "dry_run", FALSE) /\ Len(st.results) > 0
       THEN /\ ioLog' = ioLog \o <<ReadEvent(file, rd),
                                   WriteEvent(file, Writable(file), st.modifiedContent)>>
            /\ disk' = IF Writable(file)
                       THEN [disk EXCEPT ![file].bytes = st.modifiedContent]
                       ELSE disk
       ELSE /\ ioLog' = Append(ioLog, ReadEvent(file, rd))
            /\ UNCHANGED disk
    /\ UNCHANGED <<pc, opError, outcome>>

\* the try block of the file loop: a binary file and any error thrown
\* inside the block move on to the next file
VisitRethrows(file, rd) ==
    IF rd.status = "error"
    THEN /\ Throw(rd.error)
         /\ ioLog' = Append(ioLog, ReadEvent(file, rd))
         /\ UNCHANGED <<allResults, disk>>
    ELSE IF rd.status = "binary"
    THEN /\ ioLog' = Append(ioLog, ReadEvent(file, rd))
         /\ UNCHANGED <<allResults, disk, pc, opError, outcome>>
    ELSE IF tool = "regexReplace"
    THEN VisitReplace(file, rd, ReplaceFile(params, regex, file, rd.content, allResults))
    ELSE /\ allResults' = FileBody(tool, params, regex, file, rd.content, allResults)
         /\ ioLog' = Append(ioLog, ReadEvent(file, rd))
         /\ UNCHANGED <<disk, pc, opError, outcome>>
Visit(file, rd) ==
    IF rd.status # "text"
    THEN /\ ioLog' = Append(ioLog, ReadEvent(file, rd))
         /\ UNCHANGED <<allResults, disk, pc, opError, outcome>>
    ELSE IF tool = "regexReplace"
    THEN VisitReplace(file, rd, ReplaceFile(params, regex, file, rd.content, allResults))
    ELSE /\ allResults' = FileBody(tool, params, regex, file, rd.content, allResults)
         /\ ioLog' = Append(ioLog, ReadEvent(file, rd))
         /\ UNCHANGED <<disk, pc, opError, outcome>>

ReadOf(fs, file) ==
    readFileWithBinaryCheck(fs, file,
        Param(params, "binary_check_buffer_size", DEFAULT_BINARY_CHECK_SIZE))

\* one iteration of the file loop: read the file, run the tool's body on
\* its text and, in regexReplace, write the file back
VisitFilePastCap ==
    /\ pc = "walk"
    /\ fileIdx <= Len(files)
    /\ Visit(files[fileIdx], ReadOf(disk, files[fileIdx]))
    /\ fileIdx' = fileIdx + 1
    /\ UNCHANGED <<tool, params, files, regex, timerFired>>
VisitFile ==
    /\ pc = "walk"
    /\ fileIdx <= Len(files)
    /\ Len(allResults) < MaxResultsOf(params)
    /\ Visit(files[fileIdx], ReadOf(disk, files[fileIdx]))
    /\ fileIdx' = fileIdx + 1
    /\ UNCHANGED <<tool, params, files, regex, timerFired>>

\* the file loop ends, at the end of the list or at the break on
\* max_results, and the operation returns allResults
Return ==
    /\ pc = "walk"
    /\ fileIdx > Len(files) \/ Len(allResults) >= MaxResultsOf(params)
    /\ pc' = "returned"
    /\ outcome' = Race(outcome, "results", allResults)
    /\ UNCHANGED <<tool, params, files, disk, regex, fileIdx, allResults, opError,
                   timerFired, ioLog>>

Next == Begin \/ GlobDone \/ VisitFile \/ Return \/ TimerFires

Spec == Init /\ [][Next]_vars

\* ------------------------------------------------------------------------
\* Properties
\* ------------------------------------------------------------------------
Reads == SelectSeq(ioLog, LAMBDA e : e.kind = "read")
Writes == SelectSeq(ioLog, LAMBDA e : e.kind = "write")
Take(list, n) == SubSeq(list, 1, Min(n, Len(list)))
RecordsOf(list, file) == SelectSeq(list, LAMBDA r : r.file = file)
HasCap == Truthy(params, CapKey(tool))

\* what reading files[i] yields: as logged once the loop has visited the
\* file, as the file system has it before
ReadResult(i) == IF i < fileIdx THEN Reads[i] ELSE ReadOf(disk, files[i])

\* the full result list of files[i]: the tool's body run on the file alone
\* with neither cap
Uncapped(p) == [k \in DOMAIN p \ {"max_results", CapKey(tool)} |-> p[k]]
FullResultsOf(rd, file) ==
    IF rd.status = "text"
    THEN FileBody(tool, Uncapped(params), regex, file, rd.content, <<>>)
    ELSE <<>>
FullResults(i) == FullResultsOf(ReadResult(i), files[i])
Concatenation == Flatten([i \in 1..Len(files) |-> FullResults(i)])

\* C1: in each of the five entry points the accumulated list never holds
\* more than max_results items (100 when omitted) and neither does the list
\* returned, whatever per-operation cap is given
C1_GlobalCap ==
    /\ Len(allResults) <= MaxResultsOf(params)
    /\ outcome.kind = "results" => Len(outcome.value) <= MaxResultsOf(params)
\* the walk stands at the global cap, a per-operation cap larger than it is
\* given and files are left
C1_Witness ==
    /\ pc = "walk"
    /\ HasCap
    /\ params[CapKey(tool)] > MaxResultsOf(params)
    /\ Len(allResults) = MaxResultsOf(params)
    /\ Len(allResults) > 0
    /\ fileIdx <= Len(files)

\* C2: with no per-operation cap regexSearch, regexExtract, regexSplit and
\* regexReplace return exactly the first min(max_results, N) items of the
\* concatenation, in file-discovery order, of the full result lists of the
\* readable non-binary files
C2_Tools == {"regexSearch", "regexExtract", "regexSplit", "regexReplace"}
C2_PrefixOfConcatenation ==
    (pc = "returned" /\ tool \in C2_Tools /\ ~HasCap) =>
        /\ allResults = Take(Concatenation, MaxResultsOf(params))
        /\ outcome.kind = "results" => outcome.value = allResults
\* a call without per-operation cap returned with the global cap cutting the
\* concatenation inside the second file
C2_Witness ==
    /\ pc = "returned"
    /\ tool \in C2_Tools
    /\ ~HasCap
    /\ Len(files) >= 2
    /\ Len(allResults) = MaxResultsOf(params)
    /\ Len(Concatenation) > MaxResultsOf(params)
    /\ RecordsOf(allResults, files[1]) # <<>>
    /\ RecordsOf(allResults, files[2]) # <<>>
    /\ Len(RecordsOf(allResults, files[2])) < Len(FullResults(2))

\* C3: in regexSearch, regexExtract and regexReplace with a per-operation
\* cap m > 0 every visited readable text file contributes exactly
\* min(k, m, max_results - count before the file) results, k the number of
\* matches in the file
C3_Tools == {"regexSearch", "regexExtract", "regexReplace"}
MatchCount(rd) == Len(findAllMatches(rd.content, regex, 0))
Quota(k, m) == Min(k, Min(m, MaxResultsOf(params) - Len(allResults)))
C3_Contribution(rd) ==
    rd.status = "text" =>
        Len(allResults') - Len(allResults) = Quota(MatchCount(rd), params[CapKey(tool)])
LineCount(lines) ==
    Cardinality({i \in 1..Len(lines) :
                    RegExpTest(regex, lines[i], 0).found # Param(params, "invert", FALSE)})
C4_Contribution(rd) ==
    rd.status = "text" =>
        Len(allResults') - Len(allResults)
            = Quota(LineCount(splitChar(rd.content, LF)), params.max_lines)
C4_PerFileLineQuota ==
    [][(pc = "walk" /\ fileIdx' = fileIdx + 1 /\ tool = "regexMatchLines" /\ HasCap)
          => C4_Contribution(ReadOf(disk, files[fileIdx]))]_vars

\* the read event of a file, the records of the call before those of the file
ReadOfFile(file) == Reads[First({i \in 1..Len(Reads) : Reads[i].file = file})]
Before(file) ==
    SubSeq(allResults, 1,
           Max(1, First({i \in 1..Len(allResults) : allResults[i].file = file})) - 1)

\* the naive splice: the original text with the span of every record, found
\* from its line and column, replaced by the record's replacement
RECURSIVE SumTo(_, _)
SumTo(f, n) == IF n = 0 THEN 0 ELSE f[n] + SumTo(f, n - 1)
OffsetOfLine(lines, line, column) ==
    SumTo([j \in 1..Len(lines) |-> Len(lines[j]) + 1], line - 1) + column
SpanStart(original, r) == OffsetOfLine(splitChar(original, LF), r.line, r.column)
SpanEnd(original, r) == SpanStart(original, r) + Len(r.original)
NaiveSplice(original, records) ==
    Flatten([k \in 1..Len(records) |->
                substring(original,
                          IF k = 1 THEN 0 ELSE SpanEnd(original, records[k - 1]),
                          SpanStart(original, records[k]))
                \o records[k].replacement])
    \o substring(original,
                 IF records = <<>> THEN 0 ELSE SpanEnd(original, records[Len(records)]),
                 Len(original))
Delta(records, i) ==
    SumTo([k \in 1..Len(records) |-> Len(records[k].replacement) - Len(records[k].original)], i)

\* the loop variables of regexReplace after i iterations over matches
LoopAfter(file, original, before, matches, i) ==
    ReplaceLoop(params, file, original, matches, 1, i, ReplaceStart(original, before))
C5_After(st, original, records, i) ==
    /\ st.modifiedContent = NaiveSplice(original, Take(records, i))
    /\ st.offset = Delta(records, i)
C5_Loop(file, original, records, before, matches) ==
    \A i \in 0..Len(records) :
        C5_After(LoopAfter(file, original, before, matches, i), original, records, i)
C5_Write(e, original, records, before) ==
    /\ e.content = NaiveSplice(original, records)
    /\ C5_Loop(e.file, original, records, before,
               ReplaceMatches(params, regex, original, before))
\* C5: the content a non-dry-run regexReplace writes to a file is the naive
\* splice of the file's recorded replacements against the original text;
\* after the i-th substitution the buffer is the splice of the first i and
\* the offset the sum of len(replacement) - len(original) over them (stated
\* of each write when it has just been made)
C5_NaiveSplice ==
    (ioLog # <<>> /\ ioLog[Len(ioLog)].kind = "write") =>
        C5_Write(ioLog[Len(ioLog)], ioLog[Len(ioLog) - 1].content,
                 RecordsOf(allResults, ioLog[Len(ioLog)].file),
                 Before(ioLog[Len(ioLog)].file))
\* a file was written with a shorter, an equal-length and a longer
\* replacement, the longer one of a zero-width match, among its records
C5_Mix(records) ==
    /\ \E k \in 1..Len(records) : Len(records[k].replacement) < Len(records[k].original)
    /\ \E k \in 1..Len(records) : Len(records[k].replacement) = Len(records[k].original)
    /\ \E k \in 1..Len(records) :
          Len(records[k].original) = 0 /\ Len(records[k].replacement) > 0
C5_Witness ==
    /\ \E k \in 1..Len(Writes) :
          Writes[k].ok /\ C5_Mix(RecordsOf(allResults, Writes[k].file))
    /\ \E k \in 1..Len(Writes) :
          Writes[k].ok /\ Len(RecordsOf(allResults, Writes[k].file)) >= 2
          /\ Writes[k].content # ReadOfFile(Writes[k].file).content

\* the walk over the files of reads alone: the file loop on a file list
\* that holds just these files, called with the parameters p
RECURSIVE WalkOver(_, _, _, _)
WalkOver(p, reads, i, acc) ==
    IF i > Len(reads) \/ Len(acc) >= MaxResultsOf(p) THEN acc
    ELSE WalkOver(p, reads, i + 1,
                  IF reads[i].status = "text"
                  THEN FileBody(tool, p, regex, reads[i].file, reads[i].content, acc)
                  ELSE acc)

DryRun == Param(params, "dry_run", FALSE)
OtherDryRun(p) == [k \in DOMAIN p \cup {"dry_run"} |->
                      IF k = "dry_run" THEN ~Param(p, "dry_run", FALSE) ELSE p[k]]
WritesOf(file) == SelectSeq(Writes, LAMBDA e : e.file = file)
WrittenOk(file) == \E k \in 1..Len(Writes) : Writes[k].file = file /\ Writes[k].ok

\* C6: regexReplace writes a file if and only if dry_run is false and a
\* replacement was recorded for the file, once, after the file's
\* replacements are computed; a file that was not written is as it was
\* read, with dry_run no file is written, and the records are those of the
\* same call with the other value of dry_run
C6_WriteIffRecorded ==
    /\ \A i \in 1..(fileIdx - 1) :
          /\ Len(WritesOf(files[i]))
                = (IF tool = "regexReplace" /\ ~DryRun
                      /\ RecordsOf(allResults, files[i]) # <<>>
                   THEN 1 ELSE 0)
          /\ ~WrittenOk(files[i]) =>
                /\ ReadOf(disk, files[i]).status = Reads[i].status
                /\ ReadOf(disk, files[i]).content = Reads[i].content
    /\ \A j \in 1..Len(ioLog) :
          ioLog[j].kind = "write" =>
              /\ ioLog[j - 1].kind = "read"
              /\ ioLog[j - 1].file = ioLog[j].file
              /\ Len(ioLog[j].content)
                    = Len(ioLog[j - 1].content)
                      + Delta(RecordsOf(allResults, ioLog[j].file),
                              Len(RecordsOf(allResults, ioLog[j].file)))
    /\ (tool = "regexReplace" /\ pc = "returned") =>
          allResults = WalkOver(OtherDryRun(params), Reads, 1, <<>>)
\* a dry run and a real run each past two files, one with replacements and
\* one without
C6_TwoFiles ==
    /\ tool = "regexReplace"
    /\ fileIdx = 3
    /\ Reads[1].status = "text"
    /\ Reads[2].status = "text"
    /\ RecordsOf(allResults, files[1]) # <<>>
    /\ RecordsOf(allResults, files[2]) = <<>>
    /\ Len(allResults) < MaxResultsOf(params)
C6_Witness == C6_TwoFiles /\ ~DryRun /\ Len(Writes) = 1 /\ Writes[1].ok
C6_WitnessDryRun == C6_TwoFiles /\ DryRun /\ Writes = <<>>

\* C7: a file whose write failed has no record in the list of regexReplace
\* (every record of a non-dry-run call describes a change that was
\* persisted), so its records do not count against max_results
C7_FailedWriteHasNoRecord ==
    \A k \in 1..Len(Writes) :
        ~Writes[k].ok => RecordsOf(allResults, Writes[k].file) = <<>>

\* C8: a read failure never aborts the call and never stops the walk: the
\* operation throws only before the first read, returns only at the end of
\* the file list or at the global cap, and its results are those of the
\* walk over the file list without the files whose read failed
ReadsOk == SelectSeq(Reads, LAMBDA e : e.ok)
C8_ReadFailureSkipped ==
    /\ pc = "threw" => ioLog = <<>>
    /\ pc = "returned" =>
          fileIdx > Len(files) \/ Len(allResults) >= MaxResultsOf(params)
    /\ (pc = "returned" /\ Len(ReadsOk) < Len(Reads)) =>
          allResults = WalkOver(params, ReadsOk, 1, <<>>)
    /\ (pc = "returned" /\ ~timerFired) => outcome = [kind |-> "results", value |-> allResults]
\* the call returned results of a file visited after a file whose read
\* failed
C8_Witness ==
    /\ pc = "returned"
    /\ outcome.kind = "results"
    /\ \E i \in 1..Len(Reads) : \E j \in (i + 1)..Len(Reads) :
          /\ ~Reads[i].ok
          /\ RecordsOf(outcome.value, Reads[j].file) # <<>>

\* C9: when the timer fires before the operation settles the caller gets
\* the error 'Operation timed out after N seconds' and no results; when the
\* operation settles first the caller gets its outcome; once decided the
\* outcome never changes
Settled == pc \in {"returned", "threw"}
TimedOut ==
    [kind |-> "error",
     value |-> TimeoutMessage(Param(params, "timeout", DEFAULT_TIMEOUT_SECONDS))]
C9_Decided ==
    /\ (timerFired /\ ~Settled) => outcome = TimedOut
    /\ (~timerFired /\ pc = "returned") => outcome = [kind |-> "results", value |-> allResults]
    /\ (~timerFired /\ pc = "threw") => outcome = [kind |-> "error", value |-> opError]
    /\ (~timerFired /\ ~Settled) => outcome = Pending
C9_DecidedOnce ==
    /\ []C9_Decided
    /\ [][outcome # Pending => outcome' = outcome]_vars
\* the timer fired during the walk, the operation went on to return
\* results, and the caller has the timeout error
C9_Witness ==
    /\ timerFired
    /\ pc = "returned"
    /\ allResults # <<>>
    /\ fileIdx > 2
    /\ outcome = TimedOut
\* the operation returned results first and the timer fired later
C9_WitnessLateTimer ==
    /\ timerFired
    /\ pc = "returned"
    /\ allResults # <<>>
    /\ outcome = [kind |-> "results", value |-> allResults]

\* C10: a pattern that does not compile makes the entry point fail with
\* 'Invalid regex: ...' before any file is read or written, whatever the
\* file set: the operation never returns a result list
Uncompilable == ~createRegex(ParsedPattern).ok
C10_InvalidPatternFails ==
    Uncompilable =>
        /\ ioLog = <<>>
        /\ pc # "returned"
        /\ pc = "threw" => opError[1] = "Invalid regex: "
        /\ outcome.kind # "results"

\* ------------------------------------------------------------------------
\* regexExtract over patterns with and without capture groups
\* ------------------------------------------------------------------------
\* the state at the call of entry point t with one of the params objects
\* in calls
Started(t, calls) ==
    /\ tool = t
    /\ params \in calls
    /\ \E n \in 0..MaxFiles :
          /\ files = SubSeq(FileNames, 1, n)
          /\ disk \in [{FileNames[i] : i \in 1..n} -> FileStates(t)]
    /\ pc = "start"
    /\ regex = NoRegex
    /\ fileIdx = 1
    /\ allResults = <<>>
    /\ opError = <<>>
    /\ timerFired = FALSE
    /\ outcome = Pending
    /\ ioLog = <<>>

\* a*, (?:a), (?=a)a, (a), (?<n>a), and \(*a whose only
\* parenthesis is an escaped literal one
ExtractPatterns ==
    {<<"a", "*">>,
     <<"(", "?", ":", "a", ")">>,
     <<"(", "?", "=", "a", ")", "a">>,
     <<"(", "a", ")">>,
     <<"(", "?", "<", "n", ">", "a", ")">>,
     <<BSL, "(", "*", "a">>}
ExtractCalls ==
    {[pattern |-> p] @@ mr : p \in ExtractPatterns, mr \in Opt("max_results", 0..MaxResults)}
InitExtract == Started("regexExtract", ExtractCalls)
SpecExtract == InitExtract /\ [][Next]_vars

\* the number of capture groups of the compiled pattern of the call
CaptureGroupCount == Len(NewRegExp(ParsedPattern.pattern, <<>>).names)
NoCaptureGroupsError == <<"Pattern has no capture groups: ", ParsedPattern.pattern>>

\* C11: regexExtract called with a pattern that has no capture group fails
\* with 'Pattern has no capture groups' before the file set is expanded and
\* before any file is read
C11_NoGroupFailsFirst ==
    (tool = "regexExtract" /\ CaptureGroupCount = 0 /\ pc # "start") =>
        /\ pc = "threw"
        /\ opError = NoCaptureGroupsError
        /\ ioLog = <<>>
        /\ ~timerFired => outcome = [kind |-> "error", value |-> NoCaptureGroupsError]

\* C12: regexExtract accepts a pattern only if it has a capturing or named
\* group, an escaped parenthesis not counting, so that every record's groups
\* list has at least one entry and is the match without its first element
C12_RecordsHaveGroups ==
    tool = "regexExtract" =>
        /\ pc \in {"glob", "walk", "returned"} => CaptureGroupCount > 0
        /\ \A k \in 1..Len(allResults) :
              Len(allResults[k].groups) = CaptureGroupCount /\ CaptureGroupCount >= 1

\* ------------------------------------------------------------------------
\* The dispatch layer: the CallTool request handler of the server
\* ------------------------------------------------------------------------
\* the tool names a request can carry: those of the five tools, standing by
\* the functions they dispatch to, and one the switch does not know
RequestNames == Tools \cup {"regex_grep"}
DispatchCalls(t) ==
    {pat @@ tp @@ mr :
        pat \in ValidPatterns \cup InvalidPatterns, tp \in ToolParams(t),
        mr \in Opt("max_results", {1})}
InitDispatch == \E t \in RequestNames : Started(t, DispatchCalls(t))

\* the switch on the request's tool name: a known name calls its tool, the
\* default branch throws
UnknownTool(name) == <<"Error: Unknown tool: ", name>>
CallTool ==
    /\ pc = "start"
    /\ IF tool \in Tools
       THEN Begin
       ELSE /\ Throw(UnknownTool(tool))
            /\ UNCHANGED <<tool, params, files, disk, regex, fileIdx, allResults,
                           timerFired, ioLog>>

\* what the handler returns to the client for an outcome of the call: the
\* list as JSON text, or the caught error as text
TextContent(text) == [isResponse |-> TRUE, content |-> <<[type |-> "text", text |-> text]>>]
ResponsePropagates(o) ==
    IF o.kind = "results" THEN TextContent([json |-> o.value])
    ELSE [isResponse |-> FALSE, content |-> <<>>]
Response(o) ==
    IF o.kind = "results" THEN TextContent([json |-> o.value])
    ELSE TextContent(o.value)

NextDispatch ==
    \/ CallTool
    \/ GlobDone
    \/ VisitFile
    \/ Return
    \/ (tool \in Tools /\ TimerFires)
SpecDispatch == InitDispatch /\ [][NextDispatch]_vars

\* C13: every call ends in exactly one of a result list or a single error
\* string, never a partly filled list together with an error, and the
\* dispatch layer answers every outcome, a thrown error and an unknown tool
\* name included, with one plain-text response
ErrorHeads ==
    {"Invalid regex: ", "Pattern has no capture groups: ", "Operation timed out after ",
     "Error: Unknown tool: "}
C13_ListOrErrorString ==
    /\ outcome.kind \in {"pending", "results", "error"}
    /\ pc \in {"returned", "threw"} => outcome # Pending
    /\ outcome.kind = "results" => (pc = "returned" /\ outcome.value = allResults)
    /\ outcome.kind = "error" =>
          /\ outcome.value # <<>>
          /\ outcome.value[1] \in ErrorHeads
          /\ Response(outcome) = TextContent(outcome.value)
    /\ outcome # Pending =>
          /\ Response(outcome).isResponse
          /\ Len(Response(outcome).content) = 1
          /\ Response(outcome).content[1].type = "text"
\* calls that ended in an error string after files had contributed results,
\* and an unknown tool name answered with its error text
C13_Witness ==
    /\ outcome.kind = "error"
    /\ Len(allResults) > 0
    /\ Response(outcome).content[1].text = TimeoutMessage(DEFAULT_TIMEOUT_SECONDS)
C13_WitnessUnknownTool ==
    /\ tool \notin Tools
    /\ Response(outcome) = TextContent(UnknownTool(tool))

\* ------------------------------------------------------------------------
\* The tools called with a binary_check_buffer_size
\* ------------------------------------------------------------------------
BinaryCalls(t) ==
    {pat @@ tp @@ b :
        pat \in ValidPatterns, tp \in ToolParams(t),
        b \in Opt("binary_check_buffer_size", {-1, 0, 1, 2})}
InitBinary == \E t \in Tools : Started(t, BinaryCalls(t))
SpecBinary == InitBinary /\ [][Next]_vars

\* a zero byte among the first min(length, size) bytes, for a size > 0
ZeroByteWithin(bytes, size) ==
    size > 0 /\ \E i \in 1..Len(bytes) : i <= size /\ bytes[i] = NUL
\* the visit of a readable file holding bytes, whose read is logged as ev
C14_Visit(bytes, size, ev) ==
    /\ ev.kind = "read" /\ ev.ok
    /\ (ev.status = "binary") <=> ZeroByteWithin(bytes, size)
    /\ size <= 0 => ev.status = "text"
    /\ ev.status = "binary" =>
          /\ Len(ioLog') = Len(ioLog) + 1
          /\ UNCHANGED <<allResults, disk, pc, opError, outcome>>
\* C14: a file is binary if and only if binary_check_buffer_size > 0 and a
\* zero byte is among its first min(length, size) bytes (8192 by default); a
\* binary file adds no result, raises no error, does not stop the walk and
\* is not written; with a size <= 0 every file is read as text
C14_BinarySkipped ==
    [][(pc = "walk" /\ fileIdx' = fileIdx + 1
        /\ disk[files[fileIdx]].mode \in {"rw", "r-"}) =>
          C14_Visit(disk[files[fileIdx]].bytes,
                    Param(params, "binary_check_buffer_size", DEFAULT_BINARY_CHECK_SIZE),
                    ioLog'[Len(ioLog) + 1])]_vars
\* a file whose zero byte is the last byte checked was skipped and the next
\* file contributed results
C14_Witness ==
    /\ pc = "returned"
    /\ Param(params, "binary_check_buffer_size", DEFAULT_BINARY_CHECK_SIZE) = 2
    /\ \E i \in 1..Len(Reads) : \E j \in (i + 1)..Len(Reads) :
          /\ Reads[i].status = "binary"
          /\ RecordsOf(allResults, Reads[j].file) # <<>>
\* a file with a zero byte was processed as text: the size is 0, or the zero
\* byte lies after the bytes checked
C14_WitnessAsText ==
    /\ pc = "returned"
    /\ \E i \in 1..Len(Reads) :
          /\ Reads[i].status = "text"
          /\ \E k \in 1..Len(Reads[i].content) : Reads[i].content[k] = NUL
          /\ RecordsOf(allResults, Reads[i].file) # <<>>

\* ------------------------------------------------------------------------
\* The utility functions called on their own: tool is the function called,
\* params its arguments, outcome what it returned
\* ------------------------------------------------------------------------
MaxLen == 3
MaxPieces == 2

\* the strings of at most n characters over an alphabet
Strings(alphabet, n) == UNION {[1..k -> alphabet] : k \in 0..n}

\* findAllMatches(text, new RegExp(pattern, flags), maxMatches); maxMatches
\* 0 stands for an absent or zero limit
FindPatterns ==
    {<<"a", "*">>, <<"(", "a", ")">>, <<>>, <<"a", ".">>, <<"^">>, <<"$">>,
     <<"(", "?", "=", "a", ")">>, <<"^", "a", "?">>}
FindFlags == {<<>>, <<"g">>, <<"i">>, <<"m">>, <<"s">>, <<"g", "i">>, <<"i", "m", "s">>}
FindArgs ==
    {[fn |-> "findAllMatches", pattern |-> p, flags |-> f, text |-> t, maxMatches |-> n] :
        p \in FindPatterns, f \in FindFlags,
        t \in Strings({"a", "A", LF}, MaxLen), n \in 0..2}

\* a literal-mode search, as the tools run it on the text of a file: the
\* strings searched, and texts that hold one of them between two affixes
\* (s has no carriage return other than in a CR LF pair; Variants is s with
\* each line break written as LF or as CR LF)
NoLoneCR(s) == \A i \in 1..Len(s) : s[i] = CR => (i < Len(s) /\ s[i + 1] = LF)
LiteralStrings ==
    {s \in Strings({"a", ".", "/", LF, CR}, MaxLen) : NoLoneCR(s)}
    \cup {<<m, n>> : m \in RegexMetaChars, n \in RegexMetaChars}
RECURSIVE Variants(_)
Variants(s) ==
    IF s = <<>> THEN {<<>>}
    ELSE IF s[1] = CR
    THEN {b \o v : b \in {<<LF>>, <<CR, LF>>}, v \in Variants(SubSeq(s, 3, Len(s)))}
    ELSE IF s[1] = LF
    THEN {b \o v : b \in {<<LF>>, <<CR, LF>>}, v \in Variants(Tail(s))}
    ELSE {<<s[1]>> \o v : v \in Variants(Tail(s))}
Affixes == {<<>>, <<"a">>, <<"/", ".">>}
LiteralArgs ==
    UNION {{[fn |-> "literalSearch", pattern |-> s, literal |-> TRUE,
             text |-> pre \o v \o suf] :
               v \in Variants(s), pre \in Affixes, suf \in Affixes} :
           s \in LiteralStrings}

\* parsePattern(pattern, flags): flags absent, the empty string or g
ParsePatternArgs ==
    {[fn |-> "parsePattern", pattern |-> p] @@ f :
        p \in Strings({"/", "a", "i"}, MaxLen + 1), f \in Opt("flags", {<<>>, <<"g">>})}

\* processReplacement(replacement, groups): the templates are up to
\* MaxPieces pieces in a row, groups the match of pattern in text
TemplatePieces ==
    {<<"$", "1">>, <<"$", "2">>, <<BSL, "1">>, <<"$", "{", "n", "}">>,
     <<BSL, "g", "<", "n", ">">>, <<"$", "$">>, <<"x">>, <<"1">>}
RECURSIVE Templates(_)
Templates(n) ==
    IF n = 0 THEN {<<>>}
    ELSE Templates(n - 1) \cup {t \o p : t \in Templates(n - 1), p \in TemplatePieces}
MatchSources ==
    {[pattern |-> <<"a">>, text |-> <<"a">>],
     [pattern |-> <<"(", "a", ")", "(", "b", ")", "?">>, text |-> <<"a">>],
     [pattern |-> <<"(", "?", "<", "n", ">", "b", ")", "?", "a">>, text |-> <<"a">>],
     [pattern |-> <<"(", "?", "<", "n", ">", ".", "+", ")">>, text |-> <<BSL, "2">>]}
ProcessReplacementArgs ==
    {[fn |-> "processReplacement", replacement |-> t] @@ src :
        t \in Templates(MaxPieces), src \in MatchSources}

\* getContext(lines, lineIndex, contextBefore, contextAfter): up to MaxLen
\* lines, some of them equal or empty, every valid lineIndex, counts from 0
\* to past the number of lines
ContextLines == {<<"a">>, <<"b">>, <<>>}
GetContextArgs ==
    UNION {{[fn |-> "getContext", lines |-> ls, lineIndex |-> i,
             contextBefore |-> cb, contextAfter |-> ca] :
               i \in 0..(Len(ls) - 1), cb \in 0..(MaxLen + 1), ca \in 0..(MaxLen + 1)} :
           ls \in UNION {[1..k -> ContextLines] : k \in 1..MaxLen}}

\* the scan of two files in a row with one compiled pattern, as the file
\* loop of regexSearch runs it: a fresh RegExp per file, findAllMatches with
\* the file's limit (0 = none)
ScanPatterns == {<<"a">>, <<"a", "*">>, <<"(", "a", ")">>}
ScanArgs ==
    {[fn |-> "scanFiles", pattern |-> p, flags |-> f, texts |-> <<t1, t2>>,
      fileLimit |-> n] :
        p \in ScanPatterns, f \in {<<>>, <<"g">>},
        t1 \in Strings({"a", "b"}, MaxLen - 1), t2 \in Strings({"a", "b"}, MaxLen - 1),
        n \in 0..2}

\* the arguments of every call; fn names the function called
UtilArgs ==
    FindArgs \cup LiteralArgs \cup ParsePatternArgs \cup ProcessReplacementArgs
    \cup GetContextArgs \cup ScanArgs

InitUtils ==
    /\ params \in UtilArgs
    /\ tool = params.fn
    /\ files = <<>>
    /\ disk = <<>>
    /\ pc = "start"
    /\ regex = NoRegex
    /\ fileIdx = 1
    /\ allResults = <<>>
    /\ opError = <<>>
    /\ timerFired = FALSE
    /\ outcome = Pending
    /\ ioLog = <<>>

\* the function returns value to its caller
UtilReturn(value) ==
    /\ pc = "start"
    /\ pc' = "returned"
    /\ outcome' = [kind |-> "results", value |-> value]
    /\ UNCHANGED <<tool, params, files, disk, regex, fileIdx, allResults, opError,
                   timerFired, ioLog>>

FindAllMatchesCall ==
    /\ tool = "findAllMatches"
    /\ UtilReturn(findAllMatches(params.text, NewRegExp(params.pattern, params.flags),
                                 params.maxMatches))

\* parsePattern, createRegex and findAllMatches as the tools chain them;
\* ok = FALSE stands for the error thrown by createRegex
Searched(created, text) ==
    IF created.ok
    THEN [ok |-> TRUE,
          matches |-> findAllMatches(text,
                                     NewRegExp(created.regex.source, created.regex.flags), 0)]
    ELSE [ok |-> FALSE, matches |-> <<>>]
LiteralSearchCall ==
    /\ tool = "literalSearch"
    /\ UtilReturn(Searched(createRegex(parsePattern(params.pattern,
                                                    Param(params, "flags", <<>>),
                                                    Param(params, "literal", FALSE))),
                           params.text))

ParsePatternCall ==
    /\ tool = "parsePattern"
    /\ UtilReturn(parsePattern(params.pattern, Param(params, "flags", <<>>),
                               Param(params, "literal", FALSE)))

\* the match object the tools hand to processReplacement
FirstMatch(pattern, text) == findAllMatches(text, NewRegExp(pattern, <<>>), 1)[1]
ProcessReplacementCall ==
    /\ tool = "processReplacement"
    /\ UtilReturn(processReplacement(params.replacement,
                                     FirstMatch(params.pattern, params.text)))

GetContextCall ==
    /\ tool = "getContext"
    /\ UtilReturn(getContext(params.lines, params.lineIndex, params.contextBefore,
                             params.contextAfter))

\* a RegExp object: the compiled pattern and its lastIndex
RegExpObject(rx, lastIndex) == [lastIndex |-> lastIndex] @@ rx
\* where a scan that shared one RegExp object would leave its lastIndex:
\* after the last match when the scan broke at the limit, 0 when it ran out
LastIndexLeft(results, fileLimit) ==
    IF fileLimit # 0 /\ Len(results) >= fileLimit
    THEN results[Len(results)].end
    ELSE 0
ScanLeft(rx, results, fileLimit, out) ==
    [regex |-> RegExpObject(rx, LastIndexLeft(results, fileLimit)),
     out |-> Append(out, results)]
\* one iteration of the file loop: st.regex is the pattern compiled before
\* the loop, st.out the matches of the files scanned so far
ScanFileSharingCursor(st, content, fileLimit) ==
    ScanLeft(st.regex,
             FindLoop(content, st.regex, fileLimit, st.regex.lastIndex, <<>>),
             fileLimit, st.out)
ScanFile(st, content, fileLimit) ==
    [regex |-> st.regex,
     out |-> Append(st.out,
                    findAllMatches(content, NewRegExp(st.regex.source, st.regex.flags),
                                   fileLimit))]
ScanFiles(rx, texts, fileLimit) ==
    ScanFile(ScanFile([regex |-> RegExpObject(rx, 0), out |-> <<>>],
                      texts[1], fileLimit),
             texts[2], fileLimit)
ScanFilesCall ==
    /\ tool = "scanFiles"
    /\ UtilReturn(ScanFiles(NewRegExp(params.pattern, params.flags), params.texts,
                            params.fileLimit))

NextUtils ==
    \/ FindAllMatchesCall
    \/ LiteralSearchCall
    \/ ParsePatternCall
    \/ ProcessReplacementCall
    \/ GetContextCall
    \/ ScanFilesCall
SpecUtils == InitUtils /\ [][NextUtils]_vars

\* ---- C15, C16: findAllMatches
FindReturned == tool = "findAllMatches" /\ pc = "returned"
WithG(flags) == IF hasFlag(flags, "g") THEN flags ELSE flags \o <<"g">>
WithoutG(flags) == SelectSeq(flags, LAMBDA f : f # "g")
\* where the search goes on after the match m
CursorAfter(m) == IF m.end = m.index THEN m.end + 1 ELSE m.end
\* r lists the successive matches of rx in text: each is the leftmost match
\* at or after the cursor left by the one before, and unless the list was
\* cut at the limit no match follows the last
Successive(rx, text, r, limit) ==
    /\ \A k \in 1..Len(r) :
          r[k] = RegExpExec(rx, text, IF k = 1 THEN 0 ELSE CursorAfter(r[k - 1]))
    /\ (limit = 0 \/ Len(r) < limit) =>
          ~RegExpExec(rx, text, IF r = <<>> THEN 0 ELSE CursorAfter(r[Len(r)])).found

\* C15: findAllMatches ends on every text and pattern, patterns that match
\* the empty string included: after a zero-width match the cursor advances
\* by one character, the offsets of the matches are strictly increasing and
\* there are at most text.length + 1 of them
C15_ZeroWidthAdvances ==
    FindReturned =>
        /\ Successive(NewRegExp(params.pattern, WithG(params.flags)), params.text,
                      outcome.value, params.maxMatches)
        /\ \A k \in 1..(Len(outcome.value) - 1) :
              outcome.value[k].index < outcome.value[k + 1].index
        /\ Len(outcome.value) <= Len(params.text) + 1
\* a pattern that matches the empty string gave text.length + 1 matches,
\* all zero-width, on a text of three characters
C15_Witness ==
    /\ FindReturned
    /\ Len(params.text) = 3
    /\ Len(outcome.value) = Len(params.text) + 1
    /\ \A k \in 1..Len(outcome.value) : outcome.value[k].end = outcome.value[k].index

Occurrences(s, text) ==
    {o \in {<<i, Len(v)>> : i \in 0..Len(text), v \in Variants(s)} :
        substring(text, o[1], o[1] + o[2]) \in Variants(s)
        /\ o[1] + o[2] <= Len(text)}
\* exactly one match, at the one occurrence and spanning it
OneMatchAt(found, occurrences) ==
    /\ found.ok
    /\ Len(found.matches) = 1
    /\ <<found.matches[1].index, found.matches[1].end - found.matches[1].index>>
          \in occurrences
\* s reads as /body/flags: it starts with "/" and holds a further "/"
SlashForm(s) == Len(s) >= 2 /\ s[1] = "/" /\ \E i \in 2..Len(s) : s[i] = "/"

\* C17 as stated: for every literal string s whose line breaks are LF or
\* CRLF, a literal-mode search for s in a text holding exactly one
\* occurrence of s finds exactly one match, at that occurrence and spanning
\* it
C17_LiteralFindsOccurrence ==
    (tool = "literalSearch" /\ pc = "returned"
     /\ Cardinality(Occurrences(params.pattern, params.text)) = 1) =>
        OneMatchAt(outcome.value, Occurrences(params.pattern, params.text))
\* C17 amended: the same for every s that does not read as /body/flags;
\* metacharacters match only themselves and an empty line an empty line
C17_LiteralFindsOccurrenceUnlessSlashForm ==
    (tool = "literalSearch" /\ pc = "returned" /\ ~SlashForm(params.pattern)
     /\ Cardinality(Occurrences(params.pattern, params.text)) = 1) =>
        OneMatchAt(outcome.value, Occurrences(params.pattern, params.text))
\* a string with a metacharacter and a line break was found once, in a text
\* that writes the line break the other way and holds other characters
C17_Witness ==
    /\ tool = "literalSearch" /\ pc = "returned"
    /\ params.pattern = <<".", LF, "a">>
    /\ params.text = <<"a", ".", CR, LF, "a", "a">>
    /\ OneMatchAt(outcome.value, {<<1, 4>>})

\* ---- C18: parsePattern
\* the offset of the last "/" of s
LastSlash(s) == CHOOSE i \in 1..Len(s) : s[i] = "/" /\ \A j \in (i + 1)..Len(s) : s[j] # "/"
\* what the claim gives for a /body/flags pattern and for any other
SlashFormParsed(p, s, last) ==
    [pattern |-> SubSeq(s, 2, last - 1),
     flags |-> IF "flags" \in DOMAIN p THEN p.flags ELSE SubSeq(s, last + 1, Len(s))]
PlainParsed(p) == [pattern |-> p.pattern, flags |-> Param(p, "flags", <<>>)]
\* C18: a pattern that starts with "/" and has a further "/" is /body/flags,
\* the body between the first and the last "/", the embedded flags after the
\* last; a flags argument that is given overrides the embedded flags
\* whatever its value; any other pattern is the body whole, with the flags
\* given or none; parsePattern never fails
C18_SlashFormAndOverride ==
    (tool = "parsePattern" /\ pc = "returned") =>
        /\ outcome.kind = "results"
        /\ outcome.value =
              IF SlashForm(params.pattern)
              THEN SlashFormParsed(params, params.pattern, LastSlash(params.pattern))
              ELSE PlainParsed(params)

\* ---- C19, C20: processReplacement
\* the first offset at or after i of t that holds no character of chars
RECURSIVE RunEnd(_, _, _)
RunEnd(t, i, chars) ==
    IF i <= Len(t) /\ t[i] \in chars THEN RunEnd(t, i + 1, chars) ELSE i
StartsWith(t, i, prefix) ==
    i + Len(prefix) - 1 <= Len(t) /\ SubSeq(t, i, i + Len(prefix) - 1) = prefix
\* the reference of t that opens with prefix at i: a run of chars, closed by
\* close; 0 when there is none, else the offset after it
RefEnd(t, i, prefix, chars, close, e) ==
    IF ~StartsWith(t, i, prefix) \/ e = i + Len(prefix) THEN 0
    ELSE IF close = <<>> THEN e
    ELSE IF StartsWith(t, e, close) THEN e + Len(close)
    ELSE 0
DollarNumEnd(t, i) == RefEnd(t, i, <<"$">>, DigitChars, <<>>, RunEnd(t, i + 1, DigitChars))
BackslashNumEnd(t, i) == RefEnd(t, i, <<BSL>>, DigitChars, <<>>, RunEnd(t, i + 1, DigitChars))
DollarNameEnd(t, i) ==
    RefEnd(t, i, <<"$", "{">>, WordChars, <<"}">>, RunEnd(t, i + 2, WordChars))
BackslashGNameEnd(t, i) ==
    RefEnd(t, i, <<BSL, "g", "<">>, WordChars, <<">">>, RunEnd(t, i + 3, WordChars))
\* the template read once from left to right, each reference replaced by
\* the captured text and each $$ by "$"
RECURSIVE ExpandedOnce(_, _, _)
ExpandedOnce(t, i, match) ==
    IF i > Len(t) THEN <<>>
    ELSE IF StartsWith(t, i, <<"$", "$">>)
    THEN <<"$">> \o ExpandedOnce(t, i + 2, match)
    ELSE IF DollarNumEnd(t, i) > 0
    THEN NumberedGroup(match, SubSeq(t, i + 1, DollarNumEnd(t, i) - 1))
         \o ExpandedOnce(t, DollarNumEnd(t, i), match)
    ELSE IF BackslashNumEnd(t, i) > 0
    THEN NumberedGroup(match, SubSeq(t, i + 1, BackslashNumEnd(t, i) - 1))
         \o ExpandedOnce(t, BackslashNumEnd(t, i), match)
    ELSE IF DollarNameEnd(t, i) > 0
    THEN NamedGroup(match, SubSeq(t, i + 2, DollarNameEnd(t, i) - 2))
         \o ExpandedOnce(t, DollarNameEnd(t, i), match)
    ELSE IF BackslashGNameEnd(t, i) > 0
    THEN NamedGroup(match, SubSeq(t, i + 3, BackslashGNameEnd(t, i) - 2))
         \o ExpandedOnce(t, BackslashGNameEnd(t, i), match)
    ELSE <<t[i]>> \o ExpandedOnce(t, i + 1, match)

\* C19: processReplacement expands each reference of the template exactly
\* once: for every template and match the result is the template with every
\* $N, \N, ${name} and \g<name> replaced by the captured text and every $$
\* by "$", the text an expansion produced never read as a reference again
C19_ExpandedExactlyOnce ==
    (tool = "processReplacement" /\ pc = "returned") =>
        outcome.value =
            ExpandedOnce(params.replacement, 1, FirstMatch(params.pattern, params.text))

\* ---- C20: references to absent groups, $$N, literal replacement
\* regexReplace called with a pattern without groups, one whose second group
\* is optional and one whose named group is optional, a template that
\* refers to group 2, 3 or n or holds $$, and literal given or not
ReplacePatterns ==
    {<<"a">>,
     <<"(", "a", ")", "(", "b", ")", "?">>,
     <<"(", "?", "<", "n", ">", "b", ")", "?", "a">>}
ReplaceTemplates ==
    {<<"$", "2">>, <<BSL, "2">>, <<"$", "{", "n", "}">>, <<BSL, "g", "<", "n", ">">>,
     <<"$", "$", "1">>, <<"x", "$", "3", "$", "$", "2">>}
ReplaceCalls ==
    {[pattern |-> p, replacement |-> t] @@ l :
        p \in ReplacePatterns, t \in ReplaceTemplates, l \in Opt("literal", {TRUE})}
InitReplace == Started("regexReplace", ReplaceCalls)
SpecReplace == InitReplace /\ [][Next]_vars

\* group k is not in the record's groups, or took no part in the match
GroupAbsent(groups, k) == k + 1 > Len(groups) \/ groups[k + 1] = UNDEF
NameAbsent(names, groups, name) ==
    \A j \in 1..Len(names) : names[j] = name => GroupAbsent(groups, j)
\* every reference of the template t from i on is to an absent group
RECURSIVE EveryRefAbsent(_, _, _, _)
EveryRefAbsent(t, i, names, groups) ==
    IF i > Len(t) THEN TRUE
    ELSE IF StartsWith(t, i, <<"$", "$">>) THEN EveryRefAbsent(t, i + 2, names, groups)
    ELSE IF DollarNumEnd(t, i) > 0
    THEN /\ GroupAbsent(groups, parseInt(SubSeq(t, i + 1, DollarNumEnd(t, i) - 1)))
         /\ EveryRefAbsent(t, DollarNumEnd(t, i), names, groups)
    ELSE IF BackslashNumEnd(t, i) > 0
    THEN /\ GroupAbsent(groups, parseInt(SubSeq(t, i + 1, BackslashNumEnd(t, i) - 1)))
         /\ EveryRefAbsent(t, BackslashNumEnd(t, i), names, groups)
    ELSE IF DollarNameEnd(t, i) > 0
    THEN /\ NameAbsent(names, groups, SubSeq(t, i + 2, DollarNameEnd(t, i) - 2))
         /\ EveryRefAbsent(t, DollarNameEnd(t, i), names, groups)
    ELSE IF BackslashGNameEnd(t, i) > 0
    THEN /\ NameAbsent(names, groups, SubSeq(t, i + 3, BackslashGNameEnd(t, i) - 2))
         /\ EveryRefAbsent(t, BackslashGNameEnd(t, i), names, groups)
    ELSE EveryRefAbsent(t, i + 1, names, groups)
\* the template t from i on with every reference dropped and every $$
\* turned into "$"
RECURSIVE RefsDropped(_, _)
RefsDropped(t, i) ==
    IF i > Len(t) THEN <<>>
    ELSE IF StartsWith(t, i, <<"$", "$">>) THEN <<"$">> \o RefsDropped(t, i + 2)
    ELSE IF DollarNumEnd(t, i) > 0 THEN RefsDropped(t, DollarNumEnd(t, i))
    ELSE IF BackslashNumEnd(t, i) > 0 THEN RefsDropped(t, BackslashNumEnd(t, i))
    ELSE IF DollarNameEnd(t, i) > 0 THEN RefsDropped(t, DollarNameEnd(t, i))
    ELSE IF BackslashGNameEnd(t, i) > 0 THEN RefsDropped(t, BackslashGNameEnd(t, i))
    ELSE <<t[i]>> \o RefsDropped(t, i + 1)

\* C20: a numeric or named reference to a group that is not in the match or
\* took no part in it expands to the empty string and raises no error; $$
\* followed by digits gives "$" and the digits and is no reference; with
\* literal = true regexReplace records the replacement string as given for
\* every match
C20_AbsentGroupEmptyLiteralVerbatim ==
    tool = "regexReplace" =>
        /\ pc # "threw"
        /\ \A k \in 1..Len(allResults) :
              IF Param(params, "literal", FALSE)
              THEN allResults[k].replacement = params.replacement
              ELSE /\ EveryRefAbsent(params.replacement, 1, regex.names,
                                     allResults[k].groups) =>
                         allResults[k].replacement = RefsDropped(params.replacement, 1)
                   /\ params.replacement = <<"$", "$", "1">> =>
                         allResults[k].replacement = <<"$", "1">>
\* a call returned whose template is $2 and whose records hold a match in
\* which group 2 took part and one in which it did not, the latter replaced
\* by the empty string
C20_Witness ==
    /\ tool = "regexReplace" /\ pc = "returned"
    /\ ~Param(params, "literal", FALSE)
    /\ params.replacement = <<"$", "2">>
    /\ \E k \in 1..Len(allResults) :
          /\ Len(allResults[k].groups) = 3
          /\ allResults[k].groups[3] = UNDEF
          /\ allResults[k].replacement = <<>>
    /\ \E k \in 1..Len(allResults) : allResults[k].replacement = <<"b">>
\* a literal call returned records whose replacement is the template $2
C20_WitnessLiteral ==
    /\ tool = "regexReplace" /\ pc = "returned"
    /\ Param(params, "literal", FALSE)
    /\ params.replacement = <<"$", "2">>
    /\ Len(allResults) >= 3
\* a call with the template $$1 returned records whose replacement is $1
C20_WitnessDollar ==
    /\ tool = "regexReplace" /\ pc = "returned"
    /\ params.replacement = <<"$", "$", "1">>
    /\ \E k \in 1..Len(allResults) : allResults[k].replacement = <<"$", "1">>

\* ------------------------------------------------------------------------
\* regexMatchLines without caps, with and without the g flag and invert
\* ------------------------------------------------------------------------
MatchLinesPatterns ==
    {[pattern |-> <<"a", ".">>, flags |-> <<"g">>],
     [pattern |-> <<"a", ".">>],
     [pattern |-> <<"b">>, flags |-> <<"g">>],
     [pattern |-> <<"a", "*">>, flags |-> <<"g">>],
     [pattern |-> <<"^", "b">>, flags |-> <<"g", "i">>]}
MatchLinesCalls ==
    {p @@ inv : p \in MatchLinesPatterns, inv \in Opt("invert", {TRUE, FALSE})}
InitMatchLines == Started("regexMatchLines", MatchLinesCalls)
SpecMatchLines == InitMatchLines /\ [][Next]_vars

\* the pattern matches somewhere in the line, whatever was tested before
MatchesLine(rx, line) == \E pos \in 0..Len(line) : MatchAt(rx, line, pos).found
\* the lines of content, numbered from 1, for which matched # invert
LinesWanted(rx, file, lines, invert) ==
    SelectSeq([i \in 1..Len(lines) |-> [file |-> file, line |-> i, content |-> lines[i]]],
              LAMBDA r : MatchesLine(rx, r.content) # invert)
\* the same for every file read as text so far, in the order of the reads
AllLinesWanted(rx, reads, invert) ==
    Flatten([k \in 1..Len(reads) |->
                IF reads[k].status = "text"
                THEN LinesWanted(rx, reads[k].file, splitChar(reads[k].content, LF), invert)
                ELSE <<>>])
LineNumbers(records) == {records[k].line : k \in 1..Len(records)}
\* what regexMatchLines gives for one text with invert as given
MatchLinesWith(content, invert) ==
    MatchLinesFile([pattern |-> params.pattern, invert |-> invert], regex, "f",
                   content, <<>>)

\* C21: without caps regexMatchLines returns for each file exactly the
\* lines (text split on LF, numbered from 1) for which (the pattern matches
\* the line) # invert, in ascending order; the decision for a line depends
\* on that line alone, also with the g flag; the results for invert = true
\* and invert = false are disjoint and together cover every line
C21_LinesByOwnContent ==
    (tool = "regexMatchLines" /\ pc \in {"walk", "returned"}) =>
        /\ allResults = AllLinesWanted(regex, Reads, Param(params, "invert", FALSE))
        /\ \A k \in 1..Len(Reads) :
              Reads[k].status = "text" =>
                 /\ LineNumbers(MatchLinesWith(Reads[k].content, TRUE))
                       \cap LineNumbers(MatchLinesWith(Reads[k].content, FALSE)) = {}
                 /\ LineNumbers(MatchLinesWith(Reads[k].content, TRUE))
                       \cup LineNumbers(MatchLinesWith(Reads[k].content, FALSE))
                       = 1..Len(splitChar(Reads[k].content, LF))
\* a call with the g flag returned the second line of a file although the
\* match in the first line had left the scan cursor at the length of the
\* second line
C21_Witness ==
    /\ tool = "regexMatchLines" /\ pc = "returned"
    /\ hasFlag(regex.flags, "g")
    /\ params.pattern = <<"a", ".">>
    /\ ~Param(params, "invert", FALSE)
    /\ \E k \in 1..(Len(allResults) - 1) :
          /\ allResults[k].file = allResults[k + 1].file
          /\ allResults[k].content = <<"a", "b">>
          /\ allResults[k + 1] = [file |-> allResults[k].file, line |-> 2,
                                  content |-> <<"a", "a">>]
\* an inverted call returned the lines the pattern does not match
C21_WitnessInvert ==
    /\ tool = "regexMatchLines" /\ pc = "returned"
    /\ Param(params, "invert", FALSE)
    /\ params.pattern = <<"b">>
    /\ \E k \in 1..Len(allResults) : allResults[k].content = <<"a", "a">>

\* ------------------------------------------------------------------------
\* regexSplit: delimiters that leave empty segments, that never match, that
\* span a line break, and that hold a capture group (one that takes part in
\* every match, one that does not)
\* ------------------------------------------------------------------------
SplitPatterns ==
    {<<"a">>, <<"b">>, <<"x">>,
     <<BSL, "n", "a", "a">>,
     <<"(", "a", ")">>,
     <<"(", "b", ")", "?", "a">>}
SplitCalls ==
    {[pattern |-> p] @@ cap : p \in SplitPatterns, cap \in Opt("max_splits", 0..MaxCap)}
InitSplit == Started("regexSplit", SplitCalls)
SpecSplit == InitSplit /\ [][Next]_vars

\* the delimiter matches of the text, leftmost first, none overlapping
Delimiters(rx, content) ==
    GlobalMatches(NewRegExp(rx.source, WithG(rx.flags)), content, 0)
\* the offsets of the k-th piece of the text between the delimiter matches ms
PieceStart(ms, k) == IF k = 1 THEN 0 ELSE ms[k - 1].end
PieceEnd(content, ms, k) == IF k > Len(ms) THEN Len(content) ELSE ms[k].index
\* the pieces of the text between its delimiter matches, numbered from 1
Pieces(file, content, ms) ==
    [k \in 1..(Len(ms) + 1) |->
        [file |-> file, segment |-> k,
         content |-> substring(content, PieceStart(ms, k), PieceEnd(content, ms, k))]]
\* the first max_splits + 1 of them when max_splits is given
PiecesKept(p, pieces) ==
    IF "max_splits" \in DOMAIN p THEN Take(pieces, p.max_splits + 1) ELSE pieces
AllPiecesKept(p, rx, reads) ==
    Flatten([k \in 1..Len(reads) |->
                IF reads[k].status = "text"
                THEN PiecesKept(p, Pieces(reads[k].file, reads[k].content,
                                          Delimiters(rx, reads[k].content)))
                ELSE <<>>])
SegmentOf(r) == [file |-> r.file, segment |-> r.segment, content |-> r.content]
SegmentsOf(records) == [k \in 1..Len(records) |-> SegmentOf(records[k])]
SplitWalked == tool = "regexSplit" /\ pc \in {"walk", "returned"}

\* C22: regexSplit returns for each file the segments obtained by splitting
\* its text at the delimiter matches, numbered from 1 in order, cut to the
\* first max_splits + 1 when max_splits is given; empty segments are kept
\* and a text without a match is one segment holding the whole text
C22_SegmentsBetweenDelimiters ==
    SplitWalked => SegmentsOf(allResults) = AllPiecesKept(params, regex, Reads)

\* C23: no delimiter match is among the segments, whatever the delimiter
\* pattern, capture groups included: every segment returned for a file is
\* the text between two consecutive delimiter matches or a file boundary,
\* and every file read as text has as many segments in the list as it has
\* such texts (up to the cut of a max_splits > 0)
PieceTexts(content, ms) ==
    {substring(content, PieceStart(ms, k), PieceEnd(content, ms, k)) : k \in 1..(Len(ms) + 1)}
TextOfFile(reads, file) ==
    reads[CHOOSE k \in 1..Len(reads) : reads[k].file = file].content
C23_NoDelimiterInSegments ==
    SplitWalked =>
        /\ \A k \in 1..Len(allResults) :
              allResults[k].content \in
                  PieceTexts(TextOfFile(Reads, allResults[k].file),
                             Delimiters(regex, TextOfFile(Reads, allResults[k].file)))
        /\ \A k \in 1..Len(Reads) :
              Reads[k].status = "text" =>
                  Len(RecordsOf(allResults, Reads[k].file)) =
                      Len(PiecesKept(IF Truthy(params, "max_splits") THEN params ELSE <<>>,
                                     Pieces(Reads[k].file, Reads[k].content,
                                            Delimiters(regex, Reads[k].content))))

\* C25: line_start is 1 + the number of LF before the true start offset of
\* the segment and line_end 1 + the number before its true end offset, for
\* empty and repeated segments too; so line_start <= line_end and
\* line_start never decreases within a file
LinesBefore(content, pos) ==
    1 + Cardinality({i \in 1..pos : content[i] = LF})
TrueLineRange(r, content, ms) ==
    /\ r.segment <= Len(ms) + 1
    /\ r.line_start = LinesBefore(content, PieceStart(ms, r.segment))
    /\ r.line_end = LinesBefore(content, PieceEnd(content, ms, r.segment))
C25_TrueLineRange ==
    SplitWalked =>
        /\ \A k \in 1..Len(allResults) :
              /\ TrueLineRange(allResults[k], TextOfFile(Reads, allResults[k].file),
                               Delimiters(regex, TextOfFile(Reads, allResults[k].file)))
              /\ allResults[k].line_start <= allResults[k].line_end
        /\ \A k \in 1..(Len(allResults) - 1) :
              allResults[k].file = allResults[k + 1].file =>
                  allResults[k].line_start <= allResults[k + 1].line_start

\* ------------------------------------------------------------------------
\* regexReplace called a second time with the same params, on the files as
\* the first call left them
\* ------------------------------------------------------------------------
ReplaceTwicePatterns ==
    {[pattern |-> <<"a">>, replacement |-> <<"b">>],
     [pattern |-> <<"b">>, replacement |-> <<>>],
     [pattern |-> <<"(", "a", ")">>, replacement |-> <<"$", "1", "x">>]}
ReplaceTwiceCalls ==
    {p @@ d : p \in ReplaceTwicePatterns, d \in Opt("dry_run", {TRUE})}
InitReplaceTwice == Started("regexReplace", ReplaceTwiceCalls)

\* the mark the second call leaves in the log: the files as it found them
CallEvent(fs) == [kind |-> "call", disk |-> fs]
Called == \E k \in 1..Len(ioLog) : ioLog[k].kind = "call"
\* the first call has returned and the same call is made again
CallAgain ==
    /\ pc = "returned"
    /\ ~Called
    /\ pc' = "start"
    /\ regex' = NoRegex
    /\ fileIdx' = 1
    /\ allResults' = <<>>
    /\ opError' = <<>>
    /\ timerFired' = FALSE
    /\ outcome' = Pending
    /\ ioLog' = Append(ioLog, CallEvent(disk))
    /\ UNCHANGED <<tool, params, files, disk>>
NextTwice == Next \/ CallAgain
SpecReplaceTwice == InitReplaceTwice /\ [][NextTwice]_vars

CallIndex == CHOOSE k \in 1..Len(ioLog) : ioLog[k].kind = "call"
\* no file of fs that can be read holds a match of the pattern
NoMatchLeft(rx, fs) ==
    \A f \in DOMAIN fs :
        fs[f].mode \in {"rw", "r-"} => ~RegExpExec(rx, fs[f].bytes, 0).found
\* C24: a second run of the same regexReplace on files that hold no match
\* of the pattern after the first run returns an empty list, writes nothing
\* and leaves every file as it was
C24_SecondRunNoOp ==
    (tool = "regexReplace" /\ Called
     /\ NoMatchLeft(NewRegExp(ParsedPattern.pattern, <<"g">>), ioLog[CallIndex].disk)) =>
        /\ allResults = <<>>
        /\ \A k \in (CallIndex + 1)..Len(ioLog) : ioLog[k].kind = "read"
        /\ disk = ioLog[CallIndex].disk
        /\ pc = "returned" =>
              outcome \in {[kind |-> "results", value |-> <<>>],
                           [kind |-> "error",
                            value |-> TimeoutMessage(DEFAULT_TIMEOUT_SECONDS)]}
\* the first run changed two files, and the second run has read both and
\* returned
C24_Witness ==
    /\ tool = "regexReplace" /\ Called /\ pc = "returned"
    /\ NoMatchLeft(NewRegExp(ParsedPattern.pattern, <<"g">>), ioLog[CallIndex].disk)
    /\ Cardinality({k \in 1..CallIndex : ioLog[k].kind = "write" /\ ioLog[k].ok}) = 2
    /\ Cardinality({k \in (CallIndex + 1)..Len(ioLog) : ioLog[k].kind = "read"}) = 2
    /\ outcome = [kind |-> "results", value |-> <<>>]

\* ---- C27: getContext
ContextReturned == tool = "getContext" /\ pc = "returned"
\* C27: before is the min(contextBefore, lineIndex) lines that precede
\* lineIndex and after the min(contextAfter, lines.length - 1 - lineIndex)
\* lines that follow it, both in file order; the target line is not among
\* them, nothing is padded, and the call returns at either end of the file
C27_ContextClamped ==
    (tool = "getContext" /\ pc # "start") =>
        /\ pc = "returned"
        /\ outcome.kind = "results"
        /\ Len(outcome.value.before) = Min(params.contextBefore, params.lineIndex)
        /\ Len(outcome.value.after) =
              Min(params.contextAfter, Len(params.lines) - 1 - params.lineIndex)
        /\ outcome.value.before =
              SubSeq(params.lines,
                     params.lineIndex + 1 - Min(params.contextBefore, params.lineIndex),
                     params.lineIndex)
        /\ outcome.value.after =
              SubSeq(params.lines, params.lineIndex + 2,
                     params.lineIndex + 1
                     + Min(params.contextAfter, Len(params.lines) - 1 - params.lineIndex))
\* the middle line of three with more context asked for than there is on
\* either side: one line before, one after
C27_Witness ==
    /\ ContextReturned
    /\ params.lines = <<<<"a">>, <<"b">>, <<>>>>
    /\ params.lineIndex = 1
    /\ params.contextBefore = 3 /\ params.contextAfter = 3
    /\ outcome.value = [before |-> <<<<"a">>>>, after |-> <<<<>>>>]

\* ------------------------------------------------------------------------
\* regexSearch and regexReplace with context lines; the replacements
\* shorten the text or lengthen it and add a line
\* ------------------------------------------------------------------------
PositionPatterns == {[pattern |-> <<"a">>], [pattern |-> <<"b">>]}
PositionParams(t) ==
    IF t = "regexReplace"
    THEN {[replacement |-> <<>>], [replacement |-> <<"x", LF>>]}
    ELSE {<<>>}
PositionCalls(t) ==
    {p @@ tp @@ cb @@ ca :
        p \in PositionPatterns, tp \in PositionParams(t),
        cb \in Opt("context_before", {1, 2}), ca \in Opt("context_after", {1})}
InitPositions ==
    \E t \in {"regexSearch", "regexReplace"} : Started(t, PositionCalls(t))
SpecPositions == InitPositions /\ [][Next]_vars

\* the offset at which the line holding offset pos starts
LineStart(content, pos) ==
    CHOOSE p \in 0..pos :
        /\ p = 0 \/ content[p] = LF
        /\ \A q \in (p + 1)..pos : content[q] # LF
\* the record r is at offset pos of the text content: its line, its column
\* and the lines of content around its line
PositionedAt(r, content, pos, lines, before, after) ==
    /\ r.line = LinesBefore(content, pos)
    /\ r.line >= 1
    /\ r.column = pos - LineStart(content, pos)
    /\ r.column >= 0
    /\ r.context_before = SubSeq(lines, Max(1, r.line - before), r.line - 1)
    /\ r.context_after = SubSeq(lines, r.line + 1, Min(Len(lines), r.line + after))
AllPositioned(records, content, ms) ==
    /\ Len(records) = Len(ms)
    /\ \A j \in 1..Len(records) :
          PositionedAt(records[j], content, ms[j].index, splitChar(content, LF),
                       Param(params, "context_before", 0),
                       Param(params, "context_after", 0))

\* C26: the line and column of every search and replace record are those of
\* the match offset in the text as it was read: line = 1 + the number of LF
\* before the offset, column = the offset minus the offset of the start of
\* that line, the context lines are lines of that text; replacements made
\* earlier in the same file shift none of them
C26_PositionsInOriginal ==
    (tool \in {"regexSearch", "regexReplace"}) =>
        \A k \in 1..Len(Reads) :
            Reads[k].status = "text" =>
                AllPositioned(RecordsOf(allResults, Reads[k].file), Reads[k].content,
                              Delimiters(regex, Reads[k].content))
\* a replace that adds a line at every match has recorded, for the last
\* match of a file, line 2 and column 1 with line 1 as the context before
C26_Witness ==
    /\ tool = "regexReplace" /\ pc = "returned"
    /\ params.replacement = <<"x", LF>>
    /\ "context_before" \in DOMAIN params
    /\ \E k \in 1..Len(allResults) :
          /\ allResults[k].line = 2 /\ allResults[k].column = 1
          /\ allResults[k].context_before = <<<<"a", "b">>>>
    /\ \E k \in 1..Len(Writes) :
          Writes[k].ok /\ Writes[k].content = <<"x", LF, "b", LF, "x", LF, "x", LF>>
\* a search has recorded the same position
C26_WitnessSearch ==
    /\ tool = "regexSearch" /\ pc = "returned"
    /\ \E k \in 1..Len(allResults) :
          /\ allResults[k].line = 2 /\ allResults[k].column = 1
          /\ allResults[k].context_before = <<<<"a", "b">>>>

\* ---- C28: the walk stops at max_results
\* the number of results the files before files[k] have contributed
CountBefore(k) ==
    Cardinality({j \in 1..Len(allResults) :
                    \E i \in 1..(k - 1) : allResults[j].file = files[i]})
\* C28: once the running count has reached max_results no further file is
\* read and none is written: the files read are a prefix of the file list,
\* each read while the count of the files before it was below max_results,
\* and a file is written only straight after its own read
C28_NoReadPastCap ==
    /\ Len(Reads) <= Len(files)
    /\ \A k \in 1..Len(Reads) :
          /\ Reads[k].file = files[k]
          /\ CountBefore(k) < MaxResultsOf(params)
    /\ \A k \in 1..Len(ioLog) :
          ioLog[k].kind = "write" =>
              /\ k > 1
              /\ ioLog[k - 1].kind = "read"
              /\ ioLog[k - 1].file = ioLog[k].file
\* a replace reached max_results in the first of two files, wrote it and
\* returned; the second file, which holds matches, was neither read nor
\* written
C28_Witness ==
    /\ tool = "regexReplace" /\ pc = "returned"
    /\ Len(files) = 2
    /\ Len(allResults) = MaxResultsOf(params)
    /\ Len(Reads) = 1 /\ Len(Writes) = 1 /\ Writes[1].ok
    /\ disk[files[2]] = [mode |-> "rw", bytes |-> <<"a", "b", LF, "a", "a">>]

\* ------------------------------------------------------------------------
\* regexReplace under its deadline, the log holding the moment the timer
\* fired
\* ------------------------------------------------------------------------
DeadlineCalls == {p @@ tp : p \in ValidPatterns, tp \in ToolParams("regexReplace")}
InitDeadline == Started("regexReplace", DeadlineCalls)
TimeoutEvent == [kind |-> "timeout"]
\* the setTimeout callback of withTimeout, logged; a callback that also
\* stopped the operation would leave it in pc = "threw"
DeadlinePassesAndCancels ==
    /\ pc # "start"
    /\ ~timerFired
    /\ timerFired' = TRUE
    /\ outcome' = Race(outcome, "error",
                       TimeoutMessage(Param(params, "timeout", DEFAULT_TIMEOUT_SECONDS)))
    /\ ioLog' = Append(ioLog, TimeoutEvent)
    /\ pc' = IF pc \in {"returned", "threw"} THEN pc ELSE "threw"
    /\ UNCHANGED <<tool, params, files, disk, regex, fileIdx, allResults, opError>>
DeadlinePasses ==
    /\ pc # "start"
    /\ ~timerFired
    /\ timerFired' = TRUE
    /\ outcome' = Race(outcome, "error",
                       TimeoutMessage(Param(params, "timeout", DEFAULT_TIMEOUT_SECONDS)))
    /\ ioLog' = Append(ioLog, TimeoutEvent)
    /\ UNCHANGED <<tool, params, files, disk, pc, regex, fileIdx, allResults, opError>>
NextDeadline == Begin \/ GlobDone \/ VisitFile \/ Return \/ DeadlinePasses
SpecDeadline == InitDeadline /\ [][NextDeadline]_vars

\* ---- C29: the deadline does not cancel the operation
\* the I/O logged after the timer fired
AfterDeadline ==
    SubSeq(ioLog, 1 + (CHOOSE k \in 1..Len(ioLog) : ioLog[k].kind = "timeout"), Len(ioLog))
\* the operation has returned with every file visited or max_results reached
WalkComplete ==
    pc = "returned" =>
        \/ Len(Reads) = Len(files)
        \/ Len(allResults) >= MaxResultsOf(params)
\* every file written holds what its write put there
WritesStand ==
    \A k \in 1..Len(Writes) : Writes[k].ok => disk[Writes[k].file].bytes = Writes[k].content
\* C29: the timer firing stops nothing: it changes neither where the
\* operation stands nor any file; whether or not the caller got the Timeout
\* error the operation returns only after the whole walk, what was written
\* stays written, and a file changes only by a write, before the deadline
\* or after it
C29_DeadlineDoesNotCancel ==
    /\ [](WalkComplete /\ WritesStand /\ pc # "threw")
    /\ [][timerFired' # timerFired =>
             UNCHANGED <<pc, fileIdx, allResults, disk, regex>>]_vars
    /\ [][disk' # disk => Len(Writes') = Len(Writes) + 1]_vars
\* the caller of a replace got the Timeout error before any file was read;
\* after that two files were read and written, and the operation returned
\* with both files holding the replaced text
C29_Witness ==
    /\ pc = "returned"
    /\ outcome = TimedOut
    /\ ioLog # <<>> /\ ioLog[1] = TimeoutEvent
    /\ Len(SelectSeq(AfterDeadline, LAMBDA e : e.kind = "read")) = 2
    /\ Len(SelectSeq(AfterDeadline, LAMBDA e : e.kind = "write" /\ e.ok)) = 2
    /\ \A f \in DOMAIN disk : disk[f].bytes \notin Texts
\* the timer fired between two files: the first was written before the
\* Timeout error and keeps the replaced text, the second was written after
C29_WitnessBetween ==
    /\ pc = "returned"
    /\ outcome = TimedOut
    /\ Len(ioLog) = 5 /\ ioLog[3] = TimeoutEvent
    /\ ioLog[2].kind = "write" /\ ioLog[2].ok
    /\ ioLog[5].kind = "write" /\ ioLog[5].ok
    /\ \A f \in DOMAIN disk : disk[f].bytes \notin Texts

\* ---- C30: no scan position carries over
\* the matches of text alone, from its start, up to the limit
ScannedAlone(pattern, flags, text, fileLimit) ==
    Take(GlobalMatches(NewRegExp(pattern, WithG(flags)), text, 0),
         IF fileLimit = 0 THEN Len(text) + 1 ELSE fileLimit)
\* C30: every file is scanned by a matcher of its own and findAllMatches
\* leaves the regex it is given as it was: what a file contributes is what
\* its text, the pattern and its limit give, whatever was scanned before it
\* and wherever that scan stopped; equal texts give equal matches
C30_NoCarryOver ==
    (tool = "scanFiles" /\ pc = "returned") =>
        /\ \A k \in 1..2 :
              outcome.value.out[k] =
                  ScannedAlone(params.pattern, params.flags, params.texts[k],
                               params.fileLimit)
        /\ outcome.value.regex.lastIndex = 0
        /\ params.texts[1] = params.texts[2] =>
              outcome.value.out[1] = outcome.value.out[2]
\* the scan of the first file broke at its limit with a match left, and the
\* second file, shorter than where that scan stopped, still gave its match
\* at offset 0
C30_Witness ==
    /\ tool = "scanFiles" /\ pc = "returned"
    /\ params.pattern = <<"a">> /\ params.flags = <<"g">>
    /\ params.fileLimit = 1
    /\ params.texts = <<<<"a", "a">>, <<"a">>>>
    /\ Len(outcome.value.out[1]) = 1 /\ outcome.value.out[1][1].end = 1
    /\ Len(outcome.value.out[2]) = 1 /\ outcome.value.out[2][1].index = 0

====
